---- MODULE Spec2Model ----
(***************************************************************************)
(* Clock configuration of the STM32L0x3 HAL (src/src/rcc.rs).              *)
(*                                                                         *)
(* The builder CFGR accumulates the requested clock tree, CFGR::freeze     *)
(* resolves it (pure arithmetic, panicking on an illegal request) and then *)
(* applies it to the FLASH_ACR, RCC_CR and RCC_CFGR registers, polling the *)
(* hardware status flags of RCC_CR between the writes.                     *)
(*                                                                         *)
(* Frequencies are in hertz.  All requested frequencies are drawn from     *)
(* sets whose members are below 2^30, so the only doubling in freeze       *)
(* (2 * sysclk) stays inside u32 and no wrap-around has to be modelled.    *)
(***************************************************************************)
EXTENDS Integers, Sequences, FiniteSets, TLC

VARIABLES
    cfg,      \* the CFGR builder: hse, usb_pll, hclk, pclk1, pclk2, sysclk
    pc,       \* position of the program: "builder", a step of freeze, "done", "panicked"
    err,      \* the panic that ended freeze, "" when there was none
    res,      \* the locals freeze computed before touching the hardware
    acr,      \* FLASH_ACR
    cr,       \* RCC_CR: enable bits and the hardware status flags
    cfgr,     \* RCC_CFGR
    clocks,   \* Option<Clocks>: the value freeze returned
    log,      \* history: register writes and decisive flag reads of freeze, in order
    boot,     \* history: the register contents the program started with
    polls,    \* history: polls of the PLL lock flag that found it clear
    apb1enr,  \* RCC_APB1ENR: clock enable bits of the APB1 peripherals
    apb1rstr, \* RCC_APB1RSTR: reset bits of the APB1 peripherals
    apb2enr,  \* RCC_APB2ENR: clock enable bits of the APB2 peripherals
    ccipr,    \* RCC_CCIPR: the LPUART1 clock selection
    i2c,      \* per I2C device: TIMINGR, CR1.PE and whether an I2c owns it
    lpuart,   \* LPUART1: CR1, CR2, CR3 and BRR
    exti,     \* line 0 of SYSCFG_EXTICR1 and of EXTI_IMR, EXTI_RTSR, EXTI_FTSR
    op,       \* the set-up operation in progress, or the last one finished
    plog,     \* history: the register accesses of that operation, in order
    isr,      \* per I2C device: the flags of I2C_ISR the transfers poll
    rxdr,     \* per I2C device: the byte waiting in I2C_RXDR
    xfer,     \* the I2C transfer in progress, or the last one and its result
    buffer,   \* the caller's buffer of write_read
    tlog      \* history: the register accesses of that transfer, in order

\* The clock tree and what freeze left behind; the peripheral side.
clockTree == <<cfg, res, acr, cr, cfgr, clocks, log, boot, polls>>
periph == <<apb1enr, apb1rstr, apb2enr, ccipr, i2c, lpuart, exti, op, plog>>
wire == <<isr, rxdr, xfer, buffer, tlog>>

vars == <<cfg, pc, err, res, acr, cr, cfgr, clocks, log, boot, polls, periph, wire>>

(***************************************************************************)
(* Option<T>                                                               *)
(***************************************************************************)
None == << >>
Some(v) == <<v>>
Unwrap(o) == o[1]
UnwrapOr(o, d) == IF o = None THEN d ELSE o[1]

(***************************************************************************)
(* Program constants                                                       *)
(***************************************************************************)
HSI == 16000000
USB_PLL_FREQ == 96000000

(***************************************************************************)
(* Inputs: the requests a program can make through the builder, and the    *)
(* register contents freeze can find (left by reset or by earlier code).   *)
(***************************************************************************)
HseTypes == {"Clock", "Crystal"}
HseFreqs == {8000000, 32000000, 40000000, 50000000}
SysclkFreqs == {24000000, 25000000, 32000000, 48000000}
HclkFreqs == {0, 100000, 4000000, 10000000}
Pclk1Freqs == {2200000, 8000000}
Pclk2Freqs == {3000000}

\* Polls of the PLL lock flag that are counted.
MaxPolls == 3

\* Software-writable fields of RCC_CR and the flags only the hardware sets.
CrEnableBits == {"pllon", "hsi16on", "hseon"}
CrStatusBits == {"pllrdy", "hsi16rdyf", "hserdy"}

\* Reset values the device crate's `write` starts from (fields the model keeps).
ACR_RESET == [latency |-> FALSE]
CR_RESET == [pllon |-> FALSE, hsi16on |-> FALSE, hseon |-> FALSE,
             pllrdy |-> FALSE, hsi16rdyf |-> FALSE, hserdy |-> FALSE]
CFGR_RESET == [pllmul |-> 0, plldiv |-> 0, pllsrc |-> FALSE, sw |-> 0,
               hpre |-> 0, ppre1 |-> 0, ppre2 |-> 0]

\* After reset: MSI is the system clock, PLL, HSI16 and HSE are off.
BootReset == [acr |-> ACR_RESET, cr |-> CR_RESET, cfgr |-> CFGR_RESET]
\* Earlier code left the PLL running from HSI16 (x4, /2) as system clock.
BootPll ==
    [acr |-> [latency |-> TRUE],
     cr |-> [pllon |-> TRUE, hsi16on |-> TRUE, hseon |-> FALSE,
             pllrdy |-> TRUE, hsi16rdyf |-> TRUE, hserdy |-> FALSE],
     cfgr |-> [pllmul |-> 1, plldiv |-> 1, pllsrc |-> FALSE, sw |-> 3,
               hpre |-> 7, ppre1 |-> 3, ppre2 |-> 3]]
\* Earlier code left HSE running as system clock.
BootHse ==
    [acr |-> ACR_RESET,
     cr |-> [pllon |-> FALSE, hsi16on |-> FALSE, hseon |-> TRUE,
             pllrdy |-> FALSE, hsi16rdyf |-> FALSE, hserdy |-> TRUE],
     cfgr |-> [pllmul |-> 0, plldiv |-> 0, pllsrc |-> FALSE, sw |-> 2,
               hpre |-> 0, ppre1 |-> 0, ppre2 |-> 0]]
BootStates == {BootReset, BootPll, BootHse}

\* The bus gate registers: the bits of the peripherals this crate sets up and
\* one bit per register of a peripheral it never touches (USART2, USART1).
APB1ENR_RESET == [i2c1en |-> FALSE, i2c3en |-> FALSE, lpuart1en |-> FALSE,
                  usart2en |-> FALSE]
APB1RSTR_RESET == [i2c1rst |-> FALSE, i2c3rst |-> FALSE, lpuart1rst |-> FALSE,
                   usart2rst |-> FALSE]
APB2ENR_RESET == [syscfgen |-> FALSE, usart1en |-> FALSE]
CCIPR_RESET == [lpuart1sel1 |-> FALSE, lpuart1sel0 |-> FALSE]
GateReset == [apb1enr |-> APB1ENR_RESET, apb1rstr |-> APB1RSTR_RESET,
              apb2enr |-> APB2ENR_RESET, ccipr |-> CCIPR_RESET]
\* Earlier code runs USART1, USART2 and I2C3, holds I2C1 in reset and clocks
\* LPUART1 from HSI16.
GateBusy ==
    [apb1enr |-> [i2c1en |-> FALSE, i2c3en |-> TRUE, lpuart1en |-> FALSE,
                  usart2en |-> TRUE],
     apb1rstr |-> [i2c1rst |-> TRUE, i2c3rst |-> FALSE, lpuart1rst |-> FALSE,
                   usart2rst |-> FALSE],
     apb2enr |-> [syscfgen |-> FALSE, usart1en |-> TRUE],
     ccipr |-> [lpuart1sel1 |-> TRUE, lpuart1sel0 |-> FALSE]]
\* Earlier code holds USART2 in reset and has SYSCFG and LPUART1 running.
GateHeld ==
    [apb1enr |-> [i2c1en |-> FALSE, i2c3en |-> FALSE, lpuart1en |-> TRUE,
                  usart2en |-> FALSE],
     apb1rstr |-> [i2c1rst |-> FALSE, i2c3rst |-> FALSE, lpuart1rst |-> FALSE,
                   usart2rst |-> TRUE],
     apb2enr |-> [syscfgen |-> TRUE, usart1en |-> FALSE],
     ccipr |-> CCIPR_RESET]
GateBoots == {GateReset, GateBusy, GateHeld}

\* The peripherals' own registers after reset, and no operation begun.
I2cDevs == {"I2C1", "I2C3"}
I2C_RESET == [timingr |-> [presc |-> 0, scll |-> 0, sclh |-> 0, sdadel |-> 0,
                           scldel |-> 0],
              pe |-> FALSE, taken |-> FALSE]
LPUART_RESET == [m1 |-> FALSE, m0 |-> FALSE, ps |-> FALSE, stop |-> 0,
                 ovrdis |-> FALSE, ue |-> FALSE, re |-> FALSE, te |-> FALSE,
                 brr |-> 0]
EXTI_RESET == [exticr |-> 0, im |-> FALSE, rt |-> FALSE, ft |-> FALSE]
NoOp == [name |-> "none", step |-> "idle", arg |-> None]

\* I2C_ISR after reset (the flags the transfers poll), no transfer begun.
ISR_RESET == [berr |-> FALSE, arlo |-> FALSE, txis |-> FALSE, tc |-> FALSE,
              rxne |-> FALSE]
NoXfer == [fn |-> "none", dev |-> "none", step |-> "idle", bytes |-> << >>,
           i |-> 0, result |-> "none"]

(***************************************************************************)
(* Register access of the device crate: `write` starts from the reset      *)
(* value and sets the named fields, `modify` starts from the current       *)
(* value.  Status flags are read-only: a write leaves them alone.          *)
(***************************************************************************)
RegWrite(reset, status, old, upd) ==
    [f \in DOMAIN old |->
        IF f \in DOMAIN upd THEN upd[f]
        ELSE IF f \in status THEN old[f]
        ELSE reset[f]]

RegModify(old, upd) ==
    [f \in DOMAIN old |-> IF f \in DOMAIN upd THEN upd[f] ELSE old[f]]

\* One entry of the history.
Ev(kind, reg, fields) == [kind |-> kind, reg |-> reg, fields |-> fields]

(***************************************************************************)
(* CFGR::freeze, the computation (rcc.rs 229-341).  Integer division is    *)
(* u32 division: it truncates.  A panic is a record with only `err`.       *)
(***************************************************************************)
Panic(e) == [err |-> e]

HseTypeOf(c) == IF c.hse = None THEN None ELSE Some(Unwrap(c.hse).ctype)
HseFreqOf(c) == IF c.hse = None THEN None ELSE Some(Unwrap(c.hse).freq)

PllInFreq(c) == UnwrapOr(HseFreqOf(c), HSI)

PllFreq(c) ==
    IF c.usb_pll
    THEN USB_PLL_FREQ
    ELSE 2 * UnwrapOr(c.sysclk, UnwrapOr(HseFreqOf(c), HSI))

\* A sysclk_freq whose bands are tested in the wrong order.
SysclkFreq_bands_swapped(c) ==
    UnwrapOr(c.sysclk,
             IF PllFreq(c) > 64000000 THEN PllFreq(c) \div 4
             ELSE IF PllFreq(c) > 96000000 THEN PllFreq(c) \div 3
             ELSE PllFreq(c) \div 2)

SysclkFreq(c) ==
    UnwrapOr(c.sysclk,
             IF PllFreq(c) > 96000000 THEN PllFreq(c) \div 4
             ELSE IF PllFreq(c) > 64000000 THEN PllFreq(c) \div 3
             ELSE PllFreq(c) \div 2)

\* A `match pll_mul` whose last arm yields a code instead of unreachable!().
PllMulBits_default_arm(pll_mul) ==
    CASE pll_mul = 3 -> Some(0)
      [] pll_mul = 4 -> Some(1)
      [] pll_mul = 6 -> Some(2)
      [] pll_mul = 8 -> Some(3)
      [] pll_mul = 12 -> Some(4)
      [] pll_mul = 16 -> Some(5)
      [] pll_mul = 24 -> Some(6)
      [] pll_mul = 32 -> Some(7)
      [] pll_mul = 48 -> Some(8)
      [] OTHER -> Some(0)

\* `match pll_mul`: the PLLMUL code, None for the unreachable!() arm.
PllMulBits(pll_mul) ==
    CASE pll_mul = 3 -> Some(0)
      [] pll_mul = 4 -> Some(1)
      [] pll_mul = 6 -> Some(2)
      [] pll_mul = 8 -> Some(3)
      [] pll_mul = 12 -> Some(4)
      [] pll_mul = 16 -> Some(5)
      [] pll_mul = 24 -> Some(6)
      [] pll_mul = 32 -> Some(7)
      [] pll_mul = 48 -> Some(8)
      [] OTHER -> None

\* A `match pll_div` that forgets the - 1 of the PLLDIV encoding.
PllDivBits_no_offset(pll_div) ==
    IF pll_div \in 2..4 THEN Some(pll_div) ELSE None

\* `match pll_div`: the PLLDIV code, None for the unreachable!() arm.
PllDivBits(pll_div) ==
    IF pll_div \in 2..4 THEN Some(pll_div - 1) ELSE None

\* The condition under which freeze uses no PLL.
PllBypass(c, pll_mul, pll_div) ==
    pll_mul = 2 /\ pll_div = 2 /\ ~c.usb_pll

\* The assert! with the crystal held to the ceiling of the clock signal.
CeilingOk_crystal_as_clock(hse_type, freq) ==
    IF hse_type # None THEN freq <= 32000000 ELSE TRUE

\* The assert! on a derived frequency for the oscillator type.
CeilingOk(hse_type, freq) ==
    IF hse_type = Some("Clock") THEN freq <= 32000000
    ELSE IF hse_type = Some("Crystal") THEN freq <= 24000000
    ELSE TRUE

\* A `match sysclk_freq / hclk` whose arm for 2 holds 0b1010 for 0b1000.
HpreBits_arm2_typo(ratio) ==
    IF ratio = 1 THEN 7
    ELSE IF ratio = 2 THEN 10
    ELSE IF ratio <= 5 THEN 9
    ELSE IF ratio <= 11 THEN 10
    ELSE IF ratio <= 39 THEN 11
    ELSE IF ratio <= 95 THEN 12
    ELSE IF ratio <= 191 THEN 13
    ELSE IF ratio <= 383 THEN 14
    ELSE 15

\* `match sysclk_freq / hclk`, for a ratio >= 1 (0 is the unreachable!() arm).
HpreBits(ratio) ==
    IF ratio = 1 THEN 7             \* 0b0111
    ELSE IF ratio = 2 THEN 8        \* 0b1000
    ELSE IF ratio <= 5 THEN 9       \* 0b1001
    ELSE IF ratio <= 11 THEN 10     \* 0b1010
    ELSE IF ratio <= 39 THEN 11     \* 0b1011
    ELSE IF ratio <= 95 THEN 12     \* 0b1100
    ELSE IF ratio <= 191 THEN 13    \* 0b1101
    ELSE IF ratio <= 383 THEN 14    \* 0b1110
    ELSE 15                         \* 0b1111

\* A `match hclk / pclk` whose third arm is 3..=7 instead of 3..=5.
PpreBits_arm_3_to_7(ratio) ==
    IF ratio = 1 THEN 3
    ELSE IF ratio = 2 THEN 4
    ELSE IF ratio <= 7 THEN 5
    ELSE IF ratio <= 11 THEN 6
    ELSE 7

\* `match hclk / pclk`, for a ratio >= 1 (0 is the unreachable!() arm).
PpreBits(ratio) ==
    IF ratio = 1 THEN 3             \* 0b011
    ELSE IF ratio = 2 THEN 4        \* 0b100
    ELSE IF ratio <= 5 THEN 5       \* 0b101
    ELSE IF ratio <= 11 THEN 6      \* 0b110
    ELSE 7                          \* 0b111

\* 1 << n
Shl1(n) == 2 ^ n

\* Lines 301-341: the two APB prescalers, given the AHB frequency.
ResolveApb(c, hse_type, sysclk_freq, pll_mul_div_bits, hpre_bits, hclk_freq) ==
    IF c.pclk1 # None /\ Unwrap(c.pclk1) = 0 THEN Panic("divide_by_zero")
    ELSE IF c.pclk1 # None /\ hclk_freq \div Unwrap(c.pclk1) = 0
    THEN Panic("unreachable_ppre1")
    ELSE
      LET ppre1_bits ==
              IF c.pclk1 = None THEN 3
              ELSE PpreBits(hclk_freq \div Unwrap(c.pclk1))
          ppre1 == Shl1(ppre1_bits - 3)
          pclk1_freq == hclk_freq \div ppre1
      IN
      IF ~CeilingOk(hse_type, pclk1_freq) THEN Panic("assert_pclk1")
      ELSE IF c.pclk2 # None /\ Unwrap(c.pclk2) = 0 THEN Panic("divide_by_zero")
      ELSE IF c.pclk2 # None /\ hclk_freq \div Unwrap(c.pclk2) = 0
      THEN Panic("unreachable_ppre2")
      ELSE
        LET ppre2_bits ==
                IF c.pclk2 = None THEN 3
                ELSE PpreBits(hclk_freq \div Unwrap(c.pclk2))
            ppre2 == Shl1(ppre2_bits - 3)
            pclk2_freq == hclk_freq \div ppre2
        IN
        IF ~CeilingOk(hse_type, pclk2_freq) THEN Panic("assert_pclk2")
        ELSE [err |-> "",
              pll_mul_div_bits |-> pll_mul_div_bits,
              hse_en |-> (hse_type # None),
              sysclk_freq |-> sysclk_freq,
              hpre_bits |-> hpre_bits,
              hclk |-> hclk_freq,
              ppre1_bits |-> ppre1_bits,
              ppre1 |-> ppre1,
              pclk1 |-> pclk1_freq,
              ppre2_bits |-> ppre2_bits,
              ppre2 |-> ppre2,
              pclk2 |-> pclk2_freq]

\* Lines 278-299: the AHB prescaler, given the system clock.
ResolveAhb(c, hse_type, sysclk_freq, pll_mul_div_bits) ==
    IF c.hclk # None /\ Unwrap(c.hclk) = 0 THEN Panic("divide_by_zero")
    ELSE IF c.hclk # None /\ sysclk_freq \div Unwrap(c.hclk) = 0
    THEN Panic("unreachable_hpre")
    ELSE
      LET hpre_bits ==
              IF c.hclk = None THEN 7
              ELSE HpreBits(sysclk_freq \div Unwrap(c.hclk))
          hclk_freq == sysclk_freq \div Shl1(hpre_bits - 7)
      IN
      IF ~CeilingOk(hse_type, hclk_freq) THEN Panic("assert_hclk")
      ELSE ResolveApb(c, hse_type, sysclk_freq, pll_mul_div_bits,
                      hpre_bits, hclk_freq)

\* Lines 229-341: everything freeze computes before its first register write.
Resolve(c) ==
    LET hse_type == HseTypeOf(c)
        pll_in_freq == PllInFreq(c)
        pll_freq == PllFreq(c)
        sysclk_freq == SysclkFreq(c)
    IN
    IF pll_in_freq = 0 \/ sysclk_freq = 0 THEN Panic("divide_by_zero")
    ELSE
      LET pll_mul == pll_freq \div pll_in_freq
          pll_div == pll_freq \div sysclk_freq
          bypass == PllBypass(c, pll_mul, pll_div)
      IN
      IF ~bypass /\ PllMulBits(pll_mul) = None THEN Panic("unreachable_pll_mul")
      ELSE IF ~bypass /\ PllDivBits(pll_div) = None
      THEN Panic("unreachable_pll_div")
      ELSE IF ~CeilingOk(hse_type, sysclk_freq) THEN Panic("assert_sysclk")
      ELSE ResolveAhb(c, hse_type, sysclk_freq,
                      IF bypass THEN None
                      ELSE Some(<<Unwrap(PllMulBits(pll_mul)),
                                  Unwrap(PllDivBits(pll_div))>>))

(***************************************************************************)
(* CFGR::new                                                               *)
(***************************************************************************)
CFGR_new ==
    [hse |-> None, usb_pll |-> FALSE, hclk |-> None, pclk1 |-> None,
     pclk2 |-> None, sysclk |-> None]

NoRes == [pll_mul_div_bits |-> None]

Init ==
    /\ cfg = CFGR_new
    /\ pc = "builder"
    /\ err = ""
    /\ res = NoRes
    /\ boot \in BootStates
    /\ acr = boot.acr
    /\ cr = boot.cr
    /\ cfgr = boot.cfgr
    /\ clocks = None
    /\ log = << >>
    /\ polls = 0
    /\ \E g \in GateBoots :
          /\ apb1enr = g.apb1enr
          /\ apb1rstr = g.apb1rstr
          /\ apb2enr = g.apb2enr
          /\ ccipr = g.ccipr
    /\ i2c = [d \in I2cDevs |-> I2C_RESET]
    /\ lpuart = LPUART_RESET
    /\ exti = EXTI_RESET
    /\ op = NoOp
    /\ plog = << >>
    /\ isr = [d \in I2cDevs |-> ISR_RESET]
    /\ rxdr = [d \in I2cDevs |-> 0]
    /\ xfer = NoXfer
    /\ buffer = << >>
    /\ tlog = << >>

(***************************************************************************)
(* The builder (rcc.rs 178-225): each call records one request.            *)
(***************************************************************************)
cfgr_external_hse ==
    /\ pc = "builder"
    /\ \E ctype \in HseTypes, freq \in HseFreqs :
          cfg' = [cfg EXCEPT !.hse = Some([ctype |-> ctype, freq |-> freq])]
    /\ UNCHANGED <<pc, err, res, acr, cr, cfgr, clocks, log, boot, polls, periph, wire>>

cfgr_usb_pll ==
    /\ pc = "builder"
    /\ \E enabled \in BOOLEAN : cfg' = [cfg EXCEPT !.usb_pll = enabled]
    /\ UNCHANGED <<pc, err, res, acr, cr, cfgr, clocks, log, boot, polls, periph, wire>>

cfgr_hclk ==
    /\ pc = "builder"
    /\ \E freq \in HclkFreqs : cfg' = [cfg EXCEPT !.hclk = Some(freq)]
    /\ UNCHANGED <<pc, err, res, acr, cr, cfgr, clocks, log, boot, polls, periph, wire>>

cfgr_pclk1 ==
    /\ pc = "builder"
    /\ \E freq \in Pclk1Freqs : cfg' = [cfg EXCEPT !.pclk1 = Some(freq)]
    /\ UNCHANGED <<pc, err, res, acr, cr, cfgr, clocks, log, boot, polls, periph, wire>>

cfgr_pclk2 ==
    /\ pc = "builder"
    /\ \E freq \in Pclk2Freqs : cfg' = [cfg EXCEPT !.pclk2 = Some(freq)]
    /\ UNCHANGED <<pc, err, res, acr, cr, cfgr, clocks, log, boot, polls, periph, wire>>

cfgr_sysclk ==
    /\ pc = "builder"
    /\ \E freq \in SysclkFreqs : cfg' = [cfg EXCEPT !.sysclk = Some(freq)]
    /\ UNCHANGED <<pc, err, res, acr, cr, cfgr, clocks, log, boot, polls, periph, wire>>

(***************************************************************************)
(* CFGR::freeze (rcc.rs 228-431), one action per register access.          *)
(***************************************************************************)
\* A freeze that adjusts the flash wait states before it validates.
freeze_acr_before_checks ==
    /\ pc = "builder"
    /\ LET r == Resolve(cfg) IN
         IF r.err # ""
         THEN /\ acr' = RegWrite(ACR_RESET, {}, acr, [latency |-> TRUE])
              /\ log' = Append(log, Ev("write", "ACR", [latency |-> TRUE]))
              /\ pc' = "panicked"
              /\ err' = r.err
              /\ UNCHANGED res
         ELSE /\ pc' = "acr_write"
              /\ res' = r
              /\ UNCHANGED <<err, acr, log>>
    /\ UNCHANGED <<cfg, cr, cfgr, clocks, boot, polls, periph, wire>>

\* Lines 229-341: the computation; a panic ends the program.
freeze ==
    /\ pc = "builder"
    /\ LET r == Resolve(cfg) IN
         IF r.err # ""
         THEN /\ pc' = "panicked"
              /\ err' = r.err
              /\ UNCHANGED res
         ELSE /\ pc' = "acr_write"
              /\ res' = r
              /\ UNCHANGED err
    /\ UNCHANGED <<cfg, acr, cr, cfgr, clocks, log, boot, polls, periph, wire>>

\* A freeze that leaves the flash wait states alone.
freeze_acr_write_skipped ==
    /\ pc = "acr_write"
    /\ pc' = IF res.pll_mul_div_bits # None THEN "pll_off" ELSE "osc_on"
    /\ UNCHANGED <<cfg, err, res, acr, cr, cfgr, clocks, log, boot, polls, periph, wire>>

\* A freeze that touches FLASH_ACR only to add the wait state.
freeze_acr_write_only_to_raise ==
    /\ pc = "acr_write"
    /\ LET upd == [latency |-> TRUE] IN
         /\ acr' = IF res.sysclk_freq <= 16000000 THEN acr
                   ELSE RegWrite(ACR_RESET, {}, acr, upd)
         /\ log' = Append(log, Ev("write", "ACR", upd))
    /\ pc' = IF res.pll_mul_div_bits # None THEN "pll_off" ELSE "osc_on"
    /\ UNCHANGED <<cfg, err, res, cr, cfgr, clocks, boot, polls, periph, wire>>

\* A freeze whose wait-state test is < 16 MHz instead of <= 16 MHz.
freeze_acr_write_strict ==
    /\ pc = "acr_write"
    /\ LET upd == [latency |-> ~(res.sysclk_freq < 16000000)] IN
         /\ acr' = RegWrite(ACR_RESET, {}, acr, upd)
         /\ log' = Append(log, Ev("write", "ACR", upd))
    /\ pc' = IF res.pll_mul_div_bits # None THEN "pll_off" ELSE "osc_on"
    /\ UNCHANGED <<cfg, err, res, cr, cfgr, clocks, boot, polls, periph, wire>>

\* Lines 344-351: acr.acr().write(latency)
freeze_acr_write ==
    /\ pc = "acr_write"
    /\ LET upd == [latency |-> ~(res.sysclk_freq <= 16000000)] IN
         /\ acr' = RegWrite(ACR_RESET, {}, acr, upd)
         /\ log' = Append(log, Ev("write", "ACR", upd))
    /\ pc' = IF res.pll_mul_div_bits # None THEN "pll_off" ELSE "osc_on"
    /\ UNCHANGED <<cfg, err, res, cr, cfgr, clocks, boot, polls, periph, wire>>

\* Line 362: rcc.cr.write(|w| w.pllon().bit(false))
freeze_pll_off ==
    /\ pc = "pll_off"
    /\ LET upd == [pllon |-> FALSE] IN
         /\ cr' = RegWrite(CR_RESET, CrStatusBits, cr, upd)
         /\ log' = Append(log, Ev("write", "CR", upd))
    /\ pc' = "wait_pll_unlock"
    /\ UNCHANGED <<cfg, err, res, acr, cfgr, clocks, boot, polls, periph, wire>>

\* A freeze that does not wait for the PLL to unlock.
freeze_wait_pll_unlock_skipped ==
    /\ pc = "wait_pll_unlock"
    /\ pc' = "pll_cfg"
    /\ UNCHANGED <<cfg, err, res, acr, cr, cfgr, clocks, log, boot, polls, periph, wire>>

\* Line 363: while rcc.cr.read().pllrdy().bit() {}
freeze_wait_pll_unlock ==
    /\ pc = "wait_pll_unlock"
    /\ IF cr.pllrdy
       THEN UNCHANGED <<pc, log>>
       ELSE /\ log' = Append(log, Ev("read", "CR", [pllrdy |-> FALSE]))
            /\ pc' = "pll_cfg"
    /\ UNCHANGED <<cfg, err, res, acr, cr, cfgr, clocks, boot, polls, periph, wire>>

\* Lines 365-372: rcc.cfgr.write(pllmul, plldiv, pllsrc)
freeze_pll_cfg ==
    /\ pc = "pll_cfg"
    /\ LET upd == [pllmul |-> Unwrap(res.pll_mul_div_bits)[1],
                   plldiv |-> Unwrap(res.pll_mul_div_bits)[2],
                   pllsrc |-> res.hse_en] IN
         /\ cfgr' = RegWrite(CFGR_RESET, {}, cfgr, upd)
         /\ log' = Append(log, Ev("write", "CFGR", upd))
    /\ pc' = "pll_on"
    /\ UNCHANGED <<cfg, err, res, acr, cr, clocks, boot, polls, periph, wire>>

\* Lines 374-381: rcc.cr.write(pllon, hsi16on, hseon)
freeze_pll_on ==
    /\ pc = "pll_on"
    /\ LET upd == [pllon |-> TRUE, hsi16on |-> ~res.hse_en,
                   hseon |-> res.hse_en] IN
         /\ cr' = RegWrite(CR_RESET, CrStatusBits, cr, upd)
         /\ log' = Append(log, Ev("write", "CR", upd))
    /\ pc' = "wait_osc"
    /\ UNCHANGED <<cfg, err, res, acr, cfgr, clocks, boot, polls, periph, wire>>

\* The ready flag of the oscillator freeze chose.
OscReadyFlag == IF res.hse_en THEN "hserdy" ELSE "hsi16rdyf"

\* Lines 382-386: while !hserdy {} / while !hsi16rdyf {}
freeze_wait_osc ==
    /\ pc = "wait_osc"
    /\ IF ~cr[OscReadyFlag]
       THEN UNCHANGED <<pc, log>>
       ELSE /\ log' = Append(log, Ev("read", "CR", OscReadyFlag :> TRUE))
            /\ pc' = "wait_pll_lock"
    /\ UNCHANGED <<cfg, err, res, acr, cr, cfgr, clocks, boot, polls, periph, wire>>

\* A freeze that does not wait for the PLL to lock.
freeze_wait_pll_lock_skipped ==
    /\ pc = "wait_pll_lock"
    /\ pc' = "sw_pll"
    /\ UNCHANGED <<cfg, err, res, acr, cr, cfgr, clocks, log, boot, polls, periph, wire>>

\* A lock wait that gives up after MaxPolls polls and goes on.
freeze_wait_pll_lock_timeout ==
    /\ pc = "wait_pll_lock"
    /\ IF ~cr.pllrdy /\ polls < MaxPolls
       THEN /\ polls' = polls + 1
            /\ UNCHANGED <<pc, log>>
       ELSE /\ IF cr.pllrdy
               THEN log' = Append(log, Ev("read", "CR", [pllrdy |-> TRUE]))
               ELSE UNCHANGED log
            /\ pc' = "sw_pll"
            /\ UNCHANGED polls
    /\ UNCHANGED <<cfg, err, res, acr, cr, cfgr, clocks, boot, periph, wire>>

\* Line 387: while rcc.cr.read().pllrdy().bit_is_clear() {}
\* One step is one evaluation of the loop condition; the count of the
\* evaluations that found the flag clear stops at MaxPolls.
freeze_wait_pll_lock ==
    /\ pc = "wait_pll_lock"
    /\ IF ~cr.pllrdy
       THEN /\ polls' = IF polls < MaxPolls THEN polls + 1 ELSE polls
            /\ UNCHANGED <<pc, log>>
       ELSE /\ log' = Append(log, Ev("read", "CR", [pllrdy |-> TRUE]))
            /\ pc' = "sw_pll"
            /\ UNCHANGED polls
    /\ UNCHANGED <<cfg, err, res, acr, cr, cfgr, clocks, boot, periph, wire>>

\* A Clocks value with the two APB frequencies in each other's place.
ClocksOf_pclk_swapped(r) ==
    [hclk |-> r.hclk, pclk1 |-> r.pclk2, pclk2 |-> r.pclk1,
     ppre1 |-> r.ppre1, ppre2 |-> r.ppre2, sysclk |-> r.sysclk_freq]

\* Lines 423-430: the Clocks value freeze returns.
ClocksOf(r) ==
    [hclk |-> r.hclk, pclk1 |-> r.pclk1, pclk2 |-> r.pclk2,
     ppre1 |-> r.ppre1, ppre2 |-> r.ppre2, sysclk |-> r.sysclk_freq]

\* A freeze that selects the PLL without programming the prescalers.
freeze_sw_pll_sw_only ==
    /\ pc = "sw_pll"
    /\ LET upd == [sw |-> 3] IN
         /\ cfgr' = RegModify(cfgr, upd)
         /\ log' = Append(log, Ev("modify", "CFGR", upd))
    /\ clocks' = Some(ClocksOf(res))
    /\ pc' = "done"
    /\ UNCHANGED <<cfg, err, res, acr, cr, boot, polls, periph, wire>>

\* Lines 390-399 and 423-431: rcc.cfgr.modify(ppre2, ppre1, hpre, sw = 0b11),
\* then the return.
freeze_sw_pll ==
    /\ pc = "sw_pll"
    /\ LET upd == [ppre2 |-> res.ppre2_bits, ppre1 |-> res.ppre1_bits,
                   hpre |-> res.hpre_bits, sw |-> 3] IN
         /\ cfgr' = RegModify(cfgr, upd)
         /\ log' = Append(log, Ev("modify", "CFGR", upd))
    /\ clocks' = Some(ClocksOf(res))
    /\ pc' = "done"
    /\ UNCHANGED <<cfg, err, res, acr, cr, boot, polls, periph, wire>>

\* Lines 401-402: rcc.cr.write(hsi16on, hseon)
freeze_osc_on ==
    /\ pc = "osc_on"
    /\ LET upd == [hsi16on |-> ~res.hse_en, hseon |-> res.hse_en] IN
         /\ cr' = RegWrite(CR_RESET, CrStatusBits, cr, upd)
         /\ log' = Append(log, Ev("write", "CR", upd))
    /\ pc' = "wait_osc_bypass"
    /\ UNCHANGED <<cfg, err, res, acr, cfgr, clocks, boot, polls, periph, wire>>

\* A bypass branch that polls the HSE flag whatever the oscillator.
freeze_wait_osc_bypass_hse_only ==
    /\ pc = "wait_osc_bypass"
    /\ IF ~cr.hserdy
       THEN UNCHANGED <<pc, log>>
       ELSE /\ log' = Append(log, Ev("read", "CR", OscReadyFlag :> TRUE))
            /\ pc' = "sw_bypass"
    /\ UNCHANGED <<cfg, err, res, acr, cr, cfgr, clocks, boot, polls, periph, wire>>

\* Lines 404-408: while !hserdy {} / while !hsi16rdyf {}
freeze_wait_osc_bypass ==
    /\ pc = "wait_osc_bypass"
    /\ IF ~cr[OscReadyFlag]
       THEN UNCHANGED <<pc, log>>
       ELSE /\ log' = Append(log, Ev("read", "CR", OscReadyFlag :> TRUE))
            /\ pc' = "sw_bypass"
    /\ UNCHANGED <<cfg, err, res, acr, cr, cfgr, clocks, boot, polls, periph, wire>>

\* A freeze whose bypass branch holds the two source codes the wrong way round.
freeze_sw_bypass_swapped ==
    /\ pc = "sw_bypass"
    /\ LET upd == [ppre2 |-> res.ppre2_bits, ppre1 |-> res.ppre1_bits,
                   hpre |-> res.hpre_bits,
                   sw |-> IF res.hse_en THEN 1 ELSE 2] IN
         /\ cfgr' = RegWrite(CFGR_RESET, {}, cfgr, upd)
         /\ log' = Append(log, Ev("write", "CFGR", upd))
    /\ clocks' = Some(ClocksOf(res))
    /\ pc' = "done"
    /\ UNCHANGED <<cfg, err, res, acr, cr, boot, polls, periph, wire>>

\* Lines 411-420 and 423-431: rcc.cfgr.write(ppre2, ppre1, hpre, sw), then
\* the return.
freeze_sw_bypass ==
    /\ pc = "sw_bypass"
    /\ LET upd == [ppre2 |-> res.ppre2_bits, ppre1 |-> res.ppre1_bits,
                   hpre |-> res.hpre_bits,
                   sw |-> IF res.hse_en THEN 2 ELSE 1] IN
         /\ cfgr' = RegWrite(CFGR_RESET, {}, cfgr, upd)
         /\ log' = Append(log, Ev("write", "CFGR", upd))
    /\ clocks' = Some(ClocksOf(res))
    /\ pc' = "done"
    /\ UNCHANGED <<cfg, err, res, acr, cr, boot, polls, periph, wire>>

(***************************************************************************)
(* The hardware, while freeze runs: a status flag of RCC_CR follows its    *)
(* enable bit after an unknown delay.                                      *)
(***************************************************************************)
InFreeze == pc \notin {"builder", "done", "panicked"}

hw_pll_lock ==
    /\ InFreeze /\ cr.pllon /\ ~cr.pllrdy
    /\ cr' = [cr EXCEPT !.pllrdy = TRUE]
    /\ UNCHANGED <<cfg, pc, err, res, acr, cfgr, clocks, log, boot, polls, periph, wire>>

hw_pll_unlock ==
    /\ InFreeze /\ ~cr.pllon /\ cr.pllrdy
    /\ cr' = [cr EXCEPT !.pllrdy = FALSE]
    /\ UNCHANGED <<cfg, pc, err, res, acr, cfgr, clocks, log, boot, polls, periph, wire>>

hw_hse_ready ==
    /\ InFreeze /\ cr.hseon /\ ~cr.hserdy
    /\ cr' = [cr EXCEPT !.hserdy = TRUE]
    /\ UNCHANGED <<cfg, pc, err, res, acr, cfgr, clocks, log, boot, polls, periph, wire>>

hw_hse_stop ==
    /\ InFreeze /\ ~cr.hseon /\ cr.hserdy
    /\ cr' = [cr EXCEPT !.hserdy = FALSE]
    /\ UNCHANGED <<cfg, pc, err, res, acr, cfgr, clocks, log, boot, polls, periph, wire>>

hw_hsi16_ready ==
    /\ InFreeze /\ cr.hsi16on /\ ~cr.hsi16rdyf
    /\ cr' = [cr EXCEPT !.hsi16rdyf = TRUE]
    /\ UNCHANGED <<cfg, pc, err, res, acr, cfgr, clocks, log, boot, polls, periph, wire>>

hw_hsi16_stop ==
    /\ InFreeze /\ ~cr.hsi16on /\ cr.hsi16rdyf
    /\ cr' = [cr EXCEPT !.hsi16rdyf = FALSE]
    /\ UNCHANGED <<cfg, pc, err, res, acr, cfgr, clocks, log, boot, polls, periph, wire>>

Next ==
    \/ cfgr_external_hse
    \/ cfgr_usb_pll
    \/ cfgr_hclk
    \/ cfgr_pclk1
    \/ cfgr_pclk2
    \/ cfgr_sysclk
    \/ freeze
    \/ freeze_acr_write
    \/ freeze_pll_off
    \/ freeze_wait_pll_unlock
    \/ freeze_pll_cfg
    \/ freeze_pll_on
    \/ freeze_wait_osc
    \/ freeze_wait_pll_lock
    \/ freeze_sw_pll
    \/ freeze_osc_on
    \/ freeze_wait_osc_bypass
    \/ freeze_sw_bypass
    \/ hw_pll_lock
    \/ hw_pll_unlock
    \/ hw_hse_ready
    \/ hw_hse_stop
    \/ hw_hsi16_ready
    \/ hw_hsi16_stop

Spec == Init /\ [][Next]_vars

\* The steps of freeze after its computation (lines 343-431).
FreezeStep ==
    \/ freeze_acr_write
    \/ freeze_pll_off
    \/ freeze_wait_pll_unlock
    \/ freeze_pll_cfg
    \/ freeze_pll_on
    \/ freeze_wait_osc
    \/ freeze_wait_pll_lock
    \/ freeze_sw_pll
    \/ freeze_osc_on
    \/ freeze_wait_osc_bypass
    \/ freeze_sw_bypass

\* The processor keeps executing freeze once it is called, and a status flag
\* follows its enable bit in the end: PLLRDY clears after PLLON is cleared and
\* sets after it is set, HSERDY and HSI16RDYF set after their oscillator is
\* switched on.
FairSpec ==
    /\ Spec
    /\ WF_vars(FreezeStep)
    /\ WF_vars(hw_pll_unlock)
    /\ WF_vars(hw_pll_lock)
    /\ WF_vars(hw_hse_ready)
    /\ WF_vars(hw_hsi16_ready)

(***************************************************************************)
(* Peripheral set-up after freeze (i2c.rs 72-126, lpusart.rs 65-89,        *)
(* exti.rs 103-133).  The program is sequential: one operation runs at a   *)
(* time, one register access per step.  The operations read Clocks; with   *)
(* sysclk up to 32 MHz, sysclk << 6 and div * 256 stay inside u32.         *)
(***************************************************************************)
I2cFreqs == {0, 100000, 400000}
ExtiSources == {"GPIOA", "GPIOC"}
ExtiTriggers == {"Rising", "Falling", "RisingAndFalling"}

\* The enable and the reset field the hal! macro and configure name.
EnBit(d) ==
    CASE d = "I2C1" -> "i2c1en"
      [] d = "I2C3" -> "i2c3en"
      [] d = "LPUART1" -> "lpuart1en"
RstBit(d) ==
    CASE d = "I2C1" -> "i2c1rst"
      [] d = "I2C3" -> "i2c3rst"
      [] d = "LPUART1" -> "lpuart1rst"

\* One entry of the history of an operation.
PEv(kind, dev, reg, fields) ==
    [kind |-> kind, dev |-> dev, reg |-> reg, fields |-> fields]

\* A new operation can be called: freeze has returned and nothing is running.
CanStart == pc = "done" /\ op.step \in {"idle", "finished"}
Running(names, step) == pc = "done" /\ op.name \in names /\ op.step = step

\* A panic inside an operation ends the program.
OpPanic(e) ==
    /\ pc' = "panicked"
    /\ err' = e
    /\ op' = [op EXCEPT !.step = "panicked"]

\* An I2C constructor that enables its clock with `write`.
i2cX_enable_write(d, freq) ==
    /\ CanStart
    /\ ~i2c[d].taken
    /\ LET upd == EnBit(d) :> TRUE IN
         /\ apb1enr' = RegWrite(APB1ENR_RESET, {}, apb1enr, upd)
         /\ plog' = << PEv("write", "RCC", "APB1ENR", upd) >>
    /\ op' = [name |-> d, step |-> "rst_set", arg |-> Some(freq)]
    /\ UNCHANGED <<pc, err, wire, clockTree, apb1rstr, apb2enr, ccipr, i2c, lpuart, exti>>

\* i2c.rs 72-83: the call, then apb1.enr().modify(|_, w| w.i2cXen().set_bit())
i2cX_enable(d, freq) ==
    /\ CanStart
    /\ ~i2c[d].taken
    /\ LET upd == EnBit(d) :> TRUE IN
         /\ apb1enr' = RegModify(apb1enr, upd)
         /\ plog' = << PEv("modify", "RCC", "APB1ENR", upd) >>
    /\ op' = [name |-> d, step |-> "rst_set", arg |-> Some(freq)]
    /\ UNCHANGED <<pc, err, wire, clockTree, apb1rstr, apb2enr, ccipr, i2c, lpuart, exti>>

\* i2c.rs 84: apb1.rstr().modify(|_, w| w.i2cXrst().set_bit()); the reset
\* line puts the registers of the device back to their reset values.
i2cX_rst_set ==
    /\ Running(I2cDevs, "rst_set")
    /\ LET upd == RstBit(op.name) :> TRUE IN
         /\ apb1rstr' = RegModify(apb1rstr, upd)
         /\ plog' = Append(plog, PEv("modify", "RCC", "APB1RSTR", upd))
    /\ i2c' = [i2c EXCEPT ![op.name].timingr = I2C_RESET.timingr,
                          ![op.name].pe = I2C_RESET.pe]
    /\ op' = [op EXCEPT !.step = "rst_clear"]
    /\ UNCHANGED <<pc, err, wire, clockTree, apb1enr, apb2enr, ccipr, lpuart, exti>>

\* An I2C constructor without the second half of the reset pulse.
i2cX_rst_clear_omitted ==
    /\ Running(I2cDevs, "rst_clear")
    /\ op' = [op EXCEPT !.step = "timingr"]
    /\ UNCHANGED <<pc, err, wire, clockTree, apb1enr, apb1rstr, apb2enr, ccipr, i2c,
                   lpuart, exti, plog>>

\* i2c.rs 85: apb1.rstr().modify(|_, w| w.i2cXrst().clear_bit())
i2cX_rst_clear ==
    /\ Running(I2cDevs, "rst_clear")
    /\ LET upd == RstBit(op.name) :> FALSE IN
         /\ apb1rstr' = RegModify(apb1rstr, upd)
         /\ plog' = Append(plog, PEv("modify", "RCC", "APB1RSTR", upd))
    /\ op' = [op EXCEPT !.step = "timingr"]
    /\ UNCHANGED <<pc, err, wire, clockTree, apb1enr, apb2enr, ccipr, i2c, lpuart, exti>>

\* i2c.rs 100-105: presc = 1, scll = ((((i2cclk >> presc) >> 1) / freq) - 1)
\* as u8, sclh = scll - 4, sdadel = 2, scldel = 4.  q is the quotient; the two
\* subtractions wrap where the build has no overflow checks.
I2cTimingOf(q) ==
    LET scll == IF q = 0 THEN 255 ELSE (q - 1) % 256 IN
    [presc |-> 1, scll |-> scll,
     sclh |-> IF scll < 4 THEN scll + 252 ELSE scll - 4,
     sdadel |-> 2, scldel |-> 4]

\* i2c.rs 87-119: assert!(freq <= 100_000), the timing computation and
\* i2c.timingr.write(presc, scll, sclh, sdadel, scldel)
i2cX_timingr ==
    /\ Running(I2cDevs, "timingr")
    /\ LET d == op.name
           freq == Unwrap(op.arg)
           i2cclk == Unwrap(clocks).pclk1
       IN
       IF freq > 100000 \/ freq = 0
       THEN /\ OpPanic(IF freq = 0 THEN "divide_by_zero" ELSE "assert_freq")
            /\ UNCHANGED <<i2c, plog>>
       ELSE \E overflow_checks \in BOOLEAN :
              LET q == ((i2cclk \div 2) \div 2) \div freq
                  t == I2cTimingOf(q)
              IN
              IF overflow_checks /\ (q = 0 \/ t.scll < 4)
              THEN /\ OpPanic("overflow")
                   /\ UNCHANGED <<i2c, plog>>
              ELSE /\ i2c' = [i2c EXCEPT ![d].timingr = t]
                   /\ plog' = Append(plog, PEv("write", d, "TIMINGR", t))
                   /\ op' = [op EXCEPT !.step = "cr1"]
                   /\ UNCHANGED <<pc, err>>
    /\ UNCHANGED <<wire, clockTree, apb1enr, apb1rstr, apb2enr, ccipr, lpuart, exti>>

\* i2c.rs 122-125: i2c.cr1.write(|w| w.pe().set_bit()), then I2c { i2c, pins }
i2cX_cr1 ==
    /\ Running(I2cDevs, "cr1")
    /\ LET upd == [pe |-> TRUE] IN
         /\ i2c' = [i2c EXCEPT ![op.name].pe = TRUE, ![op.name].taken = TRUE]
         /\ plog' = Append(plog, PEv("write", op.name, "CR1", upd))
    /\ op' = [op EXCEPT !.step = "finished"]
    /\ UNCHANGED <<pc, err, wire, clockTree, apb1enr, apb1rstr, apb2enr, ccipr, lpuart,
                   exti>>

\* i2c.rs 129-131: free gives the device back; no register is touched.
free(d) ==
    /\ CanStart
    /\ i2c[d].taken
    /\ i2c' = [i2c EXCEPT ![d].taken = FALSE]
    /\ UNCHANGED <<pc, err, wire, clockTree, apb1enr, apb1rstr, apb2enr, ccipr, lpuart,
                   exti, op, plog>>

\* lpusart.rs 163-192: LpUsartConfig::new() and two requests made
\* with the builder methods, the second with a baud rate of 0.
LpUsartConfig_new ==
    [word_length |-> "Word8Bits", parity |-> FALSE, stop_bits |-> "StopBits1",
     baud_rate |-> 115200]
LpUsartConfigs ==
    {LpUsartConfig_new,
     [word_length |-> "Word9Bits", parity |-> TRUE, stop_bits |-> "StopBits2",
      baud_rate |-> 9600],
     [word_length |-> "Word7Bits", parity |-> FALSE, stop_bits |-> "StopBits1",
      baud_rate |-> 0]}

\* lpusart.rs 132-140: `match self { Word8Bits => (false, false), ... }`.  The
\* variants are not in scope under their bare names, so Word8Bits is a binding
\* that matches every value and the two other arms are never taken.
lpuart_cr1_bits(word_length) == <<FALSE, FALSE>>

\* lpusart.rs 147-154: `match self { StopBits1 => 0b00, ... }`, the same way.
lpuart_cr2_bits(stop_bits) == 0

\* rcc.rs 117-126: LpUsartClock::ccipr_bits, (sel1, sel0)
ccipr_bits(source) ==
    CASE source = "ApbClock" -> <<FALSE, FALSE>>
      [] source = "SystemClock" -> <<FALSE, TRUE>>
      [] source = "HSI16Clock" -> <<TRUE, FALSE>>
      [] source = "LSEClock" -> <<TRUE, TRUE>>

\* A set_lpusart_clock that selects the system clock in the SW field of
\* RCC_CFGR instead of the LPUART1 field of RCC_CCIPR.
configure_set_lpusart_clock_in_cfgr(config) ==
    /\ CanStart
    /\ LET upd == [sw |-> 1] IN
         /\ cfgr' = RegModify(cfgr, upd)
         /\ plog' = << PEv("modify", "RCC", "CFGR", upd) >>
    /\ op' = [name |-> "LPUART1", step |-> "enable", arg |-> Some(config)]
    /\ UNCHANGED <<pc, err, wire, cfg, res, acr, cr, clocks, log, boot, polls,
                   apb1enr, apb1rstr, apb2enr, ccipr, i2c, lpuart, exti>>

\* lpusart.rs 65-72 and rcc.rs 135-142: the call, then
\* ccipr.set_lpusart_clock(LpUsartClock::SystemClock)
configure_set_lpusart_clock(config) ==
    /\ CanStart
    /\ LET upd == [lpuart1sel1 |-> ccipr_bits("SystemClock")[1],
                   lpuart1sel0 |-> ccipr_bits("SystemClock")[2]] IN
         /\ ccipr' = RegModify(ccipr, upd)
         /\ plog' = << PEv("modify", "RCC", "CCIPR", upd) >>
    /\ op' = [name |-> "LPUART1", step |-> "enable", arg |-> Some(config)]
    /\ UNCHANGED <<pc, err, wire, clockTree, apb1enr, apb1rstr, apb2enr, i2c, lpuart, exti>>

\* lpusart.rs 73: apb1.enr().modify(|_, w| w.lpuart1en().set_bit())
configure_enable ==
    /\ Running({"LPUART1"}, "enable")
    /\ LET upd == EnBit("LPUART1") :> TRUE IN
         /\ apb1enr' = RegModify(apb1enr, upd)
         /\ plog' = Append(plog, PEv("modify", "RCC", "APB1ENR", upd))
    /\ op' = [op EXCEPT !.step = "rst_set"]
    /\ UNCHANGED <<pc, err, wire, clockTree, apb1rstr, apb2enr, ccipr, i2c, lpuart, exti>>

\* lpusart.rs 74: apb1.rstr().modify(|_, w| w.lpuart1rst().set_bit()); the
\* reset line puts the LPUART1 registers back to their reset values.
configure_rst_set ==
    /\ Running({"LPUART1"}, "rst_set")
    /\ LET upd == RstBit("LPUART1") :> TRUE IN
         /\ apb1rstr' = RegModify(apb1rstr, upd)
         /\ plog' = Append(plog, PEv("modify", "RCC", "APB1RSTR", upd))
    /\ lpuart' = LPUART_RESET
    /\ op' = [op EXCEPT !.step = "rst_clear"]
    /\ UNCHANGED <<pc, err, wire, clockTree, apb1enr, apb2enr, ccipr, i2c, exti>>

\* lpusart.rs 75: apb1.rstr().modify(|_, w| w.lpuart1rst().clear_bit())
configure_rst_clear ==
    /\ Running({"LPUART1"}, "rst_clear")
    /\ LET upd == RstBit("LPUART1") :> FALSE IN
         /\ apb1rstr' = RegModify(apb1rstr, upd)
         /\ plog' = Append(plog, PEv("modify", "RCC", "APB1RSTR", upd))
    /\ op' = [op EXCEPT !.step = "cr1_format"]
    /\ UNCHANGED <<pc, err, wire, clockTree, apb1enr, apb2enr, ccipr, i2c, lpuart, exti>>

\* lpusart.rs 77-78: div = (sysclk << 6) / baud_rate; div = (div * 256) >> 6
LpUsartDiv(sysclk, baud_rate) ==
    (((sysclk * 64) \div baud_rate) * 256) \div 64

\* lpusart.rs 77-83: the division, which panics on a baud rate of 0, then
\* regs.cr1.modify(m1, m0, ps)
configure_cr1_format ==
    /\ Running({"LPUART1"}, "cr1_format")
    /\ LET config == Unwrap(op.arg) IN
       IF config.baud_rate = 0
       THEN /\ OpPanic("divide_by_zero")
            /\ UNCHANGED <<lpuart, plog>>
       ELSE LET upd == [m1 |-> lpuart_cr1_bits(config.word_length)[1],
                        m0 |-> lpuart_cr1_bits(config.word_length)[2],
                        ps |-> config.parity] IN
            /\ lpuart' = RegModify(lpuart, upd)
            /\ plog' = Append(plog, PEv("modify", "LPUART1", "CR1", upd))
            /\ op' = [op EXCEPT !.step = "brr"]
            /\ UNCHANGED <<pc, err>>
    /\ UNCHANGED <<wire, clockTree, apb1enr, apb1rstr, apb2enr, ccipr, i2c, exti>>

\* lpusart.rs 84: regs.brr.write(|w| w.bits(div))
configure_brr ==
    /\ Running({"LPUART1"}, "brr")
    /\ LET upd == [brr |-> LpUsartDiv(Unwrap(clocks).sysclk,
                                      Unwrap(op.arg).baud_rate)] IN
         /\ lpuart' = RegModify(lpuart, upd)
         /\ plog' = Append(plog, PEv("write", "LPUART1", "BRR", upd))
    /\ op' = [op EXCEPT !.step = "cr2"]
    /\ UNCHANGED <<pc, err, wire, clockTree, apb1enr, apb1rstr, apb2enr, ccipr, i2c, exti>>

\* lpusart.rs 85-86: regs.cr2.modify(stop)
configure_cr2 ==
    /\ Running({"LPUART1"}, "cr2")
    /\ LET upd == [stop |-> lpuart_cr2_bits(Unwrap(op.arg).stop_bits)] IN
         /\ lpuart' = RegModify(lpuart, upd)
         /\ plog' = Append(plog, PEv("modify", "LPUART1", "CR2", upd))
    /\ op' = [op EXCEPT !.step = "cr3"]
    /\ UNCHANGED <<pc, err, wire, clockTree, apb1enr, apb1rstr, apb2enr, ccipr, i2c, exti>>

\* lpusart.rs 87: regs.cr3.modify(|_, w| w.ovrdis().set_bit())
configure_cr3 ==
    /\ Running({"LPUART1"}, "cr3")
    /\ LET upd == [ovrdis |-> TRUE] IN
         /\ lpuart' = RegModify(lpuart, upd)
         /\ plog' = Append(plog, PEv("modify", "LPUART1", "CR3", upd))
    /\ op' = [op EXCEPT !.step = "cr1_enable"]
    /\ UNCHANGED <<pc, err, wire, clockTree, apb1enr, apb1rstr, apb2enr, ccipr, i2c, exti>>

\* lpusart.rs 88: regs.cr1.modify(ue, re, te), then the return
configure_cr1_enable ==
    /\ Running({"LPUART1"}, "cr1_enable")
    /\ LET upd == [ue |-> TRUE, re |-> TRUE, te |-> TRUE] IN
         /\ lpuart' = RegModify(lpuart, upd)
         /\ plog' = Append(plog, PEv("modify", "LPUART1", "CR1", upd))
    /\ op' = [op EXCEPT !.step = "finished"]
    /\ UNCHANGED <<pc, err, wire, clockTree, apb1enr, apb1rstr, apb2enr, ccipr, i2c, exti>>

\* exti.rs 64-75: GpioExtiSource::syscfg_bits
syscfg_bits(source) ==
    CASE source = "GPIOA" -> 0
      [] source = "GPIOB" -> 1
      [] source = "GPIOC" -> 2
      [] source = "GPIOD" -> 3
      [] source = "GPIOE" -> 4
      [] source = "GPIOH" -> 5

\* exti.rs 103-110: the call on EXTI0, then
\* apb2.enr().modify(|_, w| w.syscfgen().set_bit())
configure_gpio_interrupt_enable(source, trigger) ==
    /\ CanStart
    /\ LET upd == [syscfgen |-> TRUE] IN
         /\ apb2enr' = RegModify(apb2enr, upd)
         /\ plog' = << PEv("modify", "RCC", "APB2ENR", upd) >>
    /\ op' = [name |-> "EXTI0", step |-> "exticr",
              arg |-> Some([source |-> source, trigger |-> trigger])]
    /\ UNCHANGED <<pc, err, wire, clockTree, apb1enr, apb1rstr, ccipr, i2c, lpuart, exti>>

\* exti.rs 111-113: syscfg.exticr1.modify(exti0 = source.syscfg_bits())
configure_gpio_interrupt_exticr ==
    /\ Running({"EXTI0"}, "exticr")
    /\ LET upd == [exticr |-> syscfg_bits(Unwrap(op.arg).source)] IN
         /\ exti' = RegModify(exti, upd)
         /\ plog' = Append(plog, PEv("modify", "SYSCFG", "EXTICR1", upd))
    /\ op' = [op EXCEPT !.step = "imr"]
    /\ UNCHANGED <<pc, err, wire, clockTree, apb1enr, apb1rstr, apb2enr, ccipr, i2c, lpuart>>

\* exti.rs 114-116: EXTI.imr.modify(|_, w| w.im0().set_bit())
configure_gpio_interrupt_imr ==
    /\ Running({"EXTI0"}, "imr")
    /\ LET upd == [im |-> TRUE] IN
         /\ exti' = RegModify(exti, upd)
         /\ plog' = Append(plog, PEv("modify", "EXTI", "IMR", upd))
    /\ op' = [op EXCEPT !.step = "rtsr"]
    /\ UNCHANGED <<pc, err, wire, clockTree, apb1enr, apb1rstr, apb2enr, ccipr, i2c, lpuart>>

\* exti.rs 117-124: EXTI.rtsr.modify(rt0 set for Rising and RisingAndFalling,
\* cleared otherwise)
configure_gpio_interrupt_rtsr ==
    /\ Running({"EXTI0"}, "rtsr")
    /\ LET upd == [rt |-> Unwrap(op.arg).trigger \in {"Rising", "RisingAndFalling"}] IN
         /\ exti' = RegModify(exti, upd)
         /\ plog' = Append(plog, PEv("modify", "EXTI", "RTSR", upd))
    /\ op' = [op EXCEPT !.step = "ftsr"]
    /\ UNCHANGED <<pc, err, wire, clockTree, apb1enr, apb1rstr, apb2enr, ccipr, i2c, lpuart>>

\* exti.rs 125-132: EXTI.ftsr.modify(ft0 set for Falling and
\* RisingAndFalling, cleared otherwise), then the return
configure_gpio_interrupt_ftsr ==
    /\ Running({"EXTI0"}, "ftsr")
    /\ LET upd == [ft |-> Unwrap(op.arg).trigger \in {"Falling", "RisingAndFalling"}] IN
         /\ exti' = RegModify(exti, upd)
         /\ plog' = Append(plog, PEv("modify", "EXTI", "FTSR", upd))
    /\ op' = [op EXCEPT !.step = "finished"]
    /\ UNCHANGED <<pc, err, wire, clockTree, apb1enr, apb1rstr, apb2enr, ccipr, i2c, lpuart>>

(***************************************************************************)
(* The program after freeze.  It starts where freeze returned for a        *)
(* request that keeps HSI16 as system clock on a device that came out of   *)
(* reset: FLASH_ACR, RCC_CR, RCC_CFGR and the history are those of that    *)
(* run.  The bus gate registers hold what earlier code left in them.       *)
(***************************************************************************)
GateRequests == {CFGR_new, [CFGR_new EXCEPT !.pclk1 = Some(2200000)]}

\* The run of freeze from BootReset for request c of GateRequests.
SwUpdOf(r) ==
    [ppre2 |-> r.ppre2_bits, ppre1 |-> r.ppre1_bits, hpre |-> r.hpre_bits,
     sw |-> 1]
FrozenFromReset(c) ==
    /\ cfg = c
    /\ boot = BootReset
    /\ pc = "done"
    /\ err = ""
    /\ res = Resolve(c)
    /\ acr = [latency |-> FALSE]
    /\ cr = [CR_RESET EXCEPT !.hsi16on = TRUE, !.hsi16rdyf = TRUE]
    /\ cfgr = RegWrite(CFGR_RESET, {}, CFGR_RESET, SwUpdOf(Resolve(c)))
    /\ clocks = Some(ClocksOf(Resolve(c)))
    /\ log = << Ev("write", "ACR", [latency |-> FALSE]),
                Ev("write", "CR", [hsi16on |-> TRUE, hseon |-> FALSE]),
                Ev("read", "CR", "hsi16rdyf" :> TRUE),
                Ev("write", "CFGR", SwUpdOf(Resolve(c))) >>
    /\ polls = 0

InitGates ==
    /\ \E c \in GateRequests : FrozenFromReset(c)
    /\ \E g \in GateBoots :
          /\ apb1enr = g.apb1enr
          /\ apb1rstr = g.apb1rstr
          /\ apb2enr = g.apb2enr
          /\ ccipr = g.ccipr
    /\ i2c = [d \in I2cDevs |-> I2C_RESET]
    /\ lpuart = LPUART_RESET
    /\ exti = EXTI_RESET
    /\ op = NoOp
    /\ plog = << >>
    /\ isr = [d \in I2cDevs |-> ISR_RESET]
    /\ rxdr = [d \in I2cDevs |-> 0]
    /\ xfer = NoXfer
    /\ buffer = << >>
    /\ tlog = << >>

NextGates ==
    \/ \E d \in I2cDevs, freq \in I2cFreqs : i2cX_enable(d, freq)
    \/ i2cX_rst_set
    \/ i2cX_rst_clear
    \/ i2cX_timingr
    \/ i2cX_cr1
    \/ \E d \in I2cDevs : free(d)
    \/ \E config \in LpUsartConfigs : configure_set_lpusart_clock(config)
    \/ configure_enable
    \/ configure_rst_set
    \/ configure_rst_clear
    \/ configure_cr1_format
    \/ configure_brr
    \/ configure_cr2
    \/ configure_cr3
    \/ configure_cr1_enable
    \/ \E source \in ExtiSources, trigger \in ExtiTriggers :
          configure_gpio_interrupt_enable(source, trigger)
    \/ configure_gpio_interrupt_exticr
    \/ configure_gpio_interrupt_imr
    \/ configure_gpio_interrupt_rtsr
    \/ configure_gpio_interrupt_ftsr

SpecGates == InitGates /\ [][NextGates]_vars

(***************************************************************************)
(* I2C transfers (i2c.rs 49-65 and 134-246), one action per register       *)
(* access.  A poll of busy_wait! that finds neither an error nor the       *)
(* awaited flag leaves the state as it is.                                 *)
(***************************************************************************)
I2cAddrs == {80}
TxInputs == {<< >>, <<17>>, <<17, 42>>}
BufLens == {0, 1, 2}
RxBytes == {90, 165}

XferSteps == {"wait_txis", "txdr", "wait_tc", "restart", "wait_rxne", "rxdr"}
Active == pc = "done" /\ xfer.step \in XferSteps
At(fn, step) == pc = "done" /\ xfer.fn = fn /\ xfer.step = step
CanTransfer(d) ==
    /\ CanStart
    /\ i2c[d].taken
    /\ xfer.step \in {"idle", "returned"}

\* A failed assert! at the head of a transfer.
XferPanic(fn, d) ==
    /\ pc' = "panicked"
    /\ err' = "assert_len"
    /\ xfer' = [NoXfer EXCEPT !.fn = fn, !.dev = d, !.step = "panicked"]

\* The return of a transfer with its Result.
Return(result) == xfer' = [xfer EXCEPT !.step = "returned", !.result = result]

\* A busy_wait! whose arms test arbitration loss before bus error.
busy_wait_arlo_first(flag, next) ==
    LET d == xfer.dev
        read == Ev("read", "ISR", isr[d])
    IN
    IF isr[d].arlo
    THEN /\ Return("Err(Arbitration)")
         /\ tlog' = Append(tlog, read)
    ELSE IF isr[d].berr
    THEN /\ Return("Err(Bus)")
         /\ tlog' = Append(tlog, read)
    ELSE IF isr[d][flag]
    THEN /\ xfer' = [xfer EXCEPT !.step = next]
         /\ tlog' = Append(tlog, read)
    ELSE UNCHANGED <<xfer, tlog>>

\* i2c.rs 49-65: busy_wait!(i2c, flag): one read of ISR per turn of the loop;
\* berr returns Err(Error::Bus), else arlo returns Err(Error::Arbitration),
\* else the flag breaks the loop, else the loop turns again.
busy_wait(flag, next) ==
    LET d == xfer.dev
        read == Ev("read", "ISR", isr[d])
    IN
    IF isr[d].berr
    THEN /\ Return("Err(Bus)")
         /\ tlog' = Append(tlog, read)
    ELSE IF isr[d].arlo
    THEN /\ Return("Err(Arbitration)")
         /\ tlog' = Append(tlog, read)
    ELSE IF isr[d][flag]
    THEN /\ xfer' = [xfer EXCEPT !.step = next]
         /\ tlog' = Append(tlog, read)
    ELSE UNCHANGED <<xfer, tlog>>

\* The fields of a CR2 write that starts a phase of a transfer.
Cr2Start(addr, rd_wrn, nbytes, autoend) ==
    [sadd |-> addr, rd_wrn |-> rd_wrn, nbytes |-> nbytes, start |-> TRUE,
     autoend |-> autoend]

\* i2c.rs 137-156: write: the assert on bytes.len(), then
\* cr2.write(sadd, rd_wrn clear, nbytes, start, autoend set).
\* Setting START clears TC in the hardware.
write_cr2(d, addr, bytes) ==
    /\ CanTransfer(d)
    /\ IF ~(Len(bytes) < 256 /\ Len(bytes) > 0)
       THEN /\ XferPanic("write", d)
            /\ UNCHANGED <<isr, buffer, tlog>>
       ELSE /\ xfer' = [fn |-> "write", dev |-> d, step |-> "wait_txis",
                        bytes |-> bytes, i |-> 1, result |-> "none"]
            /\ tlog' = << Ev("write", "CR2",
                             Cr2Start(addr, FALSE, Len(bytes), TRUE)) >>
            /\ isr' = [isr EXCEPT ![d].tc = FALSE]
            /\ buffer' = << >>
            /\ UNCHANGED <<pc, err>>
    /\ UNCHANGED <<clockTree, periph, rxdr>>

\* i2c.rs 158-161: busy_wait!(self.i2c, txis) in the loop of write
write_busy_wait_txis ==
    /\ At("write", "wait_txis")
    /\ busy_wait("txis", "txdr")
    /\ UNCHANGED <<pc, err, clockTree, periph, isr, rxdr, buffer>>

\* i2c.rs 164-175: txdr.write(txdata = *byte); after the last byte Ok(()).
\* The write of TXDR clears TXIS in the hardware.
write_txdr ==
    /\ At("write", "txdr")
    /\ tlog' = Append(tlog, Ev("write", "TXDR",
                               [txdata |-> xfer.bytes[xfer.i]]))
    /\ isr' = [isr EXCEPT ![xfer.dev].txis = FALSE]
    /\ IF xfer.i = Len(xfer.bytes)
       THEN Return("Ok")
       ELSE xfer' = [xfer EXCEPT !.i = xfer.i + 1, !.step = "wait_txis"]
    /\ UNCHANGED <<pc, err, clockTree, periph, rxdr, buffer>>

\* i2c.rs 181-206: write_read: the two asserts, then
\* cr2.write(sadd, rd_wrn clear, nbytes = bytes.len(), start, autoend clear).
write_read_cr2(d, addr, bytes, buflen) ==
    /\ CanTransfer(d)
    /\ IF ~(Len(bytes) < 256 /\ Len(bytes) > 0)
          \/ ~(buflen < 256 /\ buflen > 0)
       THEN /\ XferPanic("write_read", d)
            /\ UNCHANGED <<isr, buffer, tlog>>
       ELSE /\ xfer' = [fn |-> "write_read", dev |-> d, step |-> "wait_txis",
                        bytes |-> bytes, i |-> 1, result |-> "none"]
            /\ tlog' = << Ev("write", "CR2",
                             Cr2Start(addr, FALSE, Len(bytes), FALSE)) >>
            /\ isr' = [isr EXCEPT ![d].tc = FALSE]
            /\ buffer' = [k \in 1..buflen |-> 0]
            /\ UNCHANGED <<pc, err>>
    /\ UNCHANGED <<clockTree, periph, rxdr>>

\* i2c.rs 208-211: busy_wait!(self.i2c, txis) in the first loop of write_read
write_read_busy_wait_txis ==
    /\ At("write_read", "wait_txis")
    /\ busy_wait("txis", "txdr")
    /\ UNCHANGED <<pc, err, clockTree, periph, isr, rxdr, buffer>>

\* i2c.rs 214-217: txdr.write(txdata = *byte); the loop ends after the last
\* byte.
write_read_txdr ==
    /\ At("write_read", "txdr")
    /\ tlog' = Append(tlog, Ev("write", "TXDR",
                               [txdata |-> xfer.bytes[xfer.i]]))
    /\ isr' = [isr EXCEPT ![xfer.dev].txis = FALSE]
    /\ IF xfer.i = Len(xfer.bytes)
       THEN xfer' = [xfer EXCEPT !.step = "wait_tc"]
       ELSE xfer' = [xfer EXCEPT !.i = xfer.i + 1, !.step = "wait_txis"]
    /\ UNCHANGED <<pc, err, clockTree, periph, rxdr, buffer>>

\* A write_read that goes to the repeated START without the TC wait.
write_read_busy_wait_tc_skipped ==
    /\ At("write_read", "wait_tc")
    /\ xfer' = [xfer EXCEPT !.step = "restart"]
    /\ UNCHANGED <<pc, err, clockTree, periph, isr, rxdr, buffer, tlog>>

\* i2c.rs 219-220: busy_wait!(self.i2c, tc)
write_read_busy_wait_tc ==
    /\ At("write_read", "wait_tc")
    /\ busy_wait("tc", "restart")
    /\ UNCHANGED <<pc, err, clockTree, periph, isr, rxdr, buffer>>

\* i2c.rs 222-234: cr2.write(sadd, rd_wrn set, nbytes = buffer.len(), start,
\* autoend set): the repeated START.
write_read_restart ==
    /\ At("write_read", "restart")
    /\ tlog' = Append(tlog, Ev("write", "CR2",
                 Cr2Start(tlog[1].fields.sadd, TRUE, Len(buffer), TRUE)))
    /\ isr' = [isr EXCEPT ![xfer.dev].tc = FALSE]
    /\ xfer' = [xfer EXCEPT !.i = 1, !.step = "wait_rxne"]
    /\ UNCHANGED <<pc, err, clockTree, periph, rxdr, buffer>>

\* i2c.rs 236-238: busy_wait!(self.i2c, rxne) in the second loop
write_read_busy_wait_rxne ==
    /\ At("write_read", "wait_rxne")
    /\ busy_wait("rxne", "rxdr")
    /\ UNCHANGED <<pc, err, clockTree, periph, isr, rxdr, buffer>>

\* i2c.rs 240-245: *byte = rxdr.read().rxdata().bits(); after the last slot
\* Ok(()).  The read of RXDR clears RXNE in the hardware.
write_read_rxdr ==
    /\ At("write_read", "rxdr")
    /\ buffer' = [buffer EXCEPT ![xfer.i] = rxdr[xfer.dev]]
    /\ tlog' = Append(tlog, Ev("read", "RXDR",
                               [rxdata |-> rxdr[xfer.dev]]))
    /\ isr' = [isr EXCEPT ![xfer.dev].rxne = FALSE]
    /\ IF xfer.i = Len(buffer)
       THEN Return("Ok")
       ELSE xfer' = [xfer EXCEPT !.i = xfer.i + 1, !.step = "wait_rxne"]
    /\ UNCHANGED <<pc, err, clockTree, periph, rxdr>>

(***************************************************************************)
(* The I2C hardware while a transfer runs: it raises TXIS when it wants    *)
(* the next byte, TC when the bytes of a phase without AUTOEND are out,    *)
(* RXNE when a byte has arrived, and BERR or ARLO at any moment.  BERR and *)
(* ARLO stay set: the transfers never write I2C_ICR.                       *)
(***************************************************************************)
hw_i2c_txis ==
    /\ Active
    /\ xfer.step = "wait_txis"
    /\ ~isr[xfer.dev].txis
    /\ isr' = [isr EXCEPT ![xfer.dev].txis = TRUE]
    /\ UNCHANGED <<pc, err, clockTree, periph, rxdr, xfer, buffer, tlog>>

hw_i2c_tc ==
    /\ Active
    /\ xfer.step = "wait_tc"
    /\ ~isr[xfer.dev].tc
    /\ isr' = [isr EXCEPT ![xfer.dev].tc = TRUE]
    /\ UNCHANGED <<pc, err, clockTree, periph, rxdr, xfer, buffer, tlog>>

hw_i2c_rxne(b) ==
    /\ Active
    /\ xfer.step = "wait_rxne"
    /\ ~isr[xfer.dev].rxne
    /\ isr' = [isr EXCEPT ![xfer.dev].rxne = TRUE]
    /\ rxdr' = [rxdr EXCEPT ![xfer.dev] = b]
    /\ UNCHANGED <<pc, err, clockTree, periph, xfer, buffer, tlog>>

hw_i2c_berr ==
    /\ Active
    /\ ~isr[xfer.dev].berr
    /\ isr' = [isr EXCEPT ![xfer.dev].berr = TRUE]
    /\ UNCHANGED <<pc, err, clockTree, periph, rxdr, xfer, buffer, tlog>>

hw_i2c_arlo ==
    /\ Active
    /\ ~isr[xfer.dev].arlo
    /\ isr' = [isr EXCEPT ![xfer.dev].arlo = TRUE]
    /\ UNCHANGED <<pc, err, clockTree, periph, rxdr, xfer, buffer, tlog>>

\* The state after I2c::i2c1(.., 100 kHz, ..) has returned on a chip that
\* was frozen with the default request from reset.
InitI2c ==
    /\ FrozenFromReset(CFGR_new)
    /\ apb1enr = [APB1ENR_RESET EXCEPT !.i2c1en = TRUE]
    /\ apb1rstr = APB1RSTR_RESET
    /\ apb2enr = APB2ENR_RESET
    /\ ccipr = CCIPR_RESET
    /\ i2c = [d \in I2cDevs |->
                IF d = "I2C1"
                THEN [timingr |-> I2cTimingOf(40), pe |-> TRUE, taken |-> TRUE]
                ELSE I2C_RESET]
    /\ lpuart = LPUART_RESET
    /\ exti = EXTI_RESET
    /\ op = [name |-> "I2C1", step |-> "finished", arg |-> Some(100000)]
    /\ plog = << PEv("modify", "RCC", "APB1ENR", [i2c1en |-> TRUE]),
                 PEv("modify", "RCC", "APB1RSTR", [i2c1rst |-> TRUE]),
                 PEv("modify", "RCC", "APB1RSTR", [i2c1rst |-> FALSE]),
                 PEv("write", "I2C1", "TIMINGR", I2cTimingOf(40)),
                 PEv("write", "I2C1", "CR1", [pe |-> TRUE]) >>
    /\ isr = [d \in I2cDevs |-> ISR_RESET]
    /\ rxdr = [d \in I2cDevs |-> 0]
    /\ xfer = NoXfer
    /\ buffer = << >>
    /\ tlog = << >>

NextI2c ==
    \/ \E d \in I2cDevs, addr \in I2cAddrs, bytes \in TxInputs :
          write_cr2(d, addr, bytes)
    \/ write_busy_wait_txis
    \/ write_txdr
    \/ \E d \in I2cDevs, addr \in I2cAddrs, bytes \in TxInputs,
          buflen \in BufLens : write_read_cr2(d, addr, bytes, buflen)
    \/ write_read_busy_wait_txis
    \/ write_read_txdr
    \/ write_read_busy_wait_tc
    \/ write_read_restart
    \/ write_read_busy_wait_rxne
    \/ write_read_rxdr
    \/ hw_i2c_txis
    \/ hw_i2c_tc
    \/ \E b \in RxBytes : hw_i2c_rxne(b)
    \/ hw_i2c_berr
    \/ hw_i2c_arlo

SpecI2c == InitI2c /\ [][NextI2c]_vars

(***************************************************************************)
(* The whole life of one Rcc: constrain, freeze of the default request,    *)
(* then any sequence of set-up operations and transfers, each with one     *)
(* choice of arguments.                                                    *)
(***************************************************************************)
InitOnce ==
    /\ Init
    /\ apb1enr = GateReset.apb1enr
    /\ apb1rstr = GateReset.apb1rstr
    /\ apb2enr = GateReset.apb2enr
    /\ ccipr = GateReset.ccipr

NextOnce ==
    \/ cfgr_external_hse
    \/ cfgr_usb_pll
    \/ freeze
    \/ FreezeStep
    \/ hw_pll_lock
    \/ hw_pll_unlock
    \/ hw_hse_ready
    \/ hw_hse_stop
    \/ hw_hsi16_ready
    \/ hw_hsi16_stop
    \/ i2cX_enable("I2C1", 100000)
    \/ i2cX_rst_set
    \/ i2cX_rst_clear
    \/ i2cX_timingr
    \/ i2cX_cr1
    \/ free("I2C1")
    \/ configure_set_lpusart_clock(LpUsartConfig_new)
    \/ configure_enable
    \/ configure_rst_set
    \/ configure_rst_clear
    \/ configure_cr1_format
    \/ configure_brr
    \/ configure_cr2
    \/ configure_cr3
    \/ configure_cr1_enable
    \/ configure_gpio_interrupt_enable("GPIOA", "Rising")
    \/ configure_gpio_interrupt_exticr
    \/ configure_gpio_interrupt_imr
    \/ configure_gpio_interrupt_rtsr
    \/ configure_gpio_interrupt_ftsr
    \/ write_cr2("I2C1", 80, <<17>>)
    \/ write_busy_wait_txis
    \/ write_txdr
    \/ write_read_cr2("I2C1", 80, <<17>>, 1)
    \/ write_read_busy_wait_txis
    \/ write_read_txdr
    \/ write_read_busy_wait_tc
    \/ write_read_restart
    \/ write_read_busy_wait_rxne
    \/ write_read_rxdr
    \/ hw_i2c_txis
    \/ hw_i2c_tc
    \/ hw_i2c_rxne(90)
    \/ hw_i2c_berr
    \/ hw_i2c_arlo

SpecOnce == InitOnce /\ [][NextOnce]_vars

(***************************************************************************)
(* Properties of freeze.                                                   *)
(***************************************************************************)
Accepted == pc \notin {"builder", "panicked"}
Returned == pc = "done"
UsesPll == res.pll_mul_div_bits # None
HseRequested == cfg.hse # None

\* C1: every panic of freeze (a failed ceiling assertion, a PLL factor
\* outside the enumerated set, a zero prescaler ratio, a division by zero) is
\* raised before the first register write: in a run that ended in a panic
\* FLASH_ACR, RCC_CR and RCC_CFGR hold what they held at the start and freeze
\* has made no register access.
C1_ErrorBeforeAnyWrite ==
    pc = "panicked" =>
        /\ log = << >>
        /\ acr = boot.acr
        /\ cr = boot.cr
        /\ cfgr = boot.cfgr
        /\ clocks = None

C1_Witness == pc = "panicked" /\ err = "assert_sysclk" /\ boot = BootPll

\* The ceiling freeze asserts for an oscillator type.
CeilingOf(ctype) == IF ctype = "Clock" THEN 32000000 ELSE 24000000

\* C2: when freeze returns Clocks for a configuration with an external
\* oscillator, sysclk, hclk, pclk1 and pclk2 are each <= 32 MHz (Clock) or
\* <= 24 MHz (Crystal); without an external oscillator no ceiling assertion
\* ever fails.
C2_CeilingHolds ==
    /\ (Returned /\ HseRequested) =>
          LET c == Unwrap(clocks)
              lim == CeilingOf(Unwrap(cfg.hse).ctype)
          IN c.sysclk <= lim /\ c.hclk <= lim /\ c.pclk1 <= lim /\ c.pclk2 <= lim
    /\ (pc = "panicked" /\ ~HseRequested) =>
          err \notin {"assert_sysclk", "assert_hclk", "assert_pclk1", "assert_pclk2"}

C2_Witness ==
    /\ Returned
    /\ HseRequested
    /\ Unwrap(cfg.hse).ctype = "Crystal"
    /\ Unwrap(clocks).sysclk = 24000000

\* C3: for every configuration freeze accepts, if the PLL is used then
\* multiply = pll_out / pll_in is in {3,4,6,8,12,16,24,32,48} and
\* divide = pll_out / sysclk is in {2,3,4}; the PLL is bypassed exactly when
\* multiply = 2, divide = 2 and the USB PLL target was not requested.
C3_PllFactors ==
    Accepted =>
        LET multiply == PllFreq(cfg) \div PllInFreq(cfg)
            divide == PllFreq(cfg) \div SysclkFreq(cfg)
        IN
        /\ UsesPll => /\ multiply \in {3, 4, 6, 8, 12, 16, 24, 32, 48}
                      /\ divide \in {2, 3, 4}
        /\ ~UsesPll <=> (multiply = 2 /\ divide = 2 /\ ~cfg.usb_pll)

C3_Witness ==
    /\ Returned
    /\ UsesPll
    /\ cfg.usb_pll
    /\ cfgr.pllmul = 4
    /\ cfgr.plldiv = 2

\* What the hardware does with the PLLMUL and PLLDIV codes freeze programs.
PllMulOfCode(code) ==
    CASE code = 0 -> 3 [] code = 1 -> 4 [] code = 2 -> 6 [] code = 3 -> 8
      [] code = 4 -> 12 [] code = 5 -> 16 [] code = 6 -> 24 [] code = 7 -> 32
      [] code = 8 -> 48
PllDivOfCode(code) == code + 1

\* The system clock frequency the register contents select.
AchievedSysclk ==
    IF cfgr.sw = 3
    THEN ((IF cfgr.pllsrc THEN Unwrap(cfg.hse).freq ELSE HSI)
            * PllMulOfCode(cfgr.pllmul)) \div PllDivOfCode(cfgr.plldiv)
    ELSE IF cfgr.sw = 2 THEN Unwrap(cfg.hse).freq
    ELSE HSI

\* C4: the sysclk held in the returned Clocks is the frequency the written
\* settings achieve: source x multiply / divide with the PLL, the source
\* frequency itself when the PLL is bypassed.
C4_SysclkIsAchieved ==
    Returned => Unwrap(clocks).sysclk = AchievedSysclk

\* The dividers a prescaler code of freeze stands for.
BusDividers == {1, 2, 4, 8, 16, 32, 64, 128, 256}

\* freq is upstream divided by the smallest divider that brings it to or
\* below target.
SmallestDividerTo(upstream, target, freq) ==
    \E d \in BusDividers :
        /\ freq = upstream \div d
        /\ freq <= target
        /\ \A e \in BusDividers : e < d => upstream \div e > target

\* C5: for each bus with a requested target, the bus frequency in Clocks is
\* <= the target and comes from the smallest divider that achieves that.
C5_SmallestDivider ==
    Returned =>
        LET c == Unwrap(clocks) IN
        /\ cfg.hclk # None => SmallestDividerTo(c.sysclk, Unwrap(cfg.hclk), c.hclk)
        /\ cfg.pclk1 # None => SmallestDividerTo(c.hclk, Unwrap(cfg.pclk1), c.pclk1)
        /\ cfg.pclk2 # None => SmallestDividerTo(c.hclk, Unwrap(cfg.pclk2), c.pclk2)

\* History: position i is a register write (write or modify) of freeze.
IsWrite(i) == log[i].kind \in {"write", "modify"}
\* History: position i is the read that ended the wait for flag = val.
IsRead(i, flag, val) == log[i] = Ev("read", "CR", flag :> val)
\* History: position i is a write that names field f of register reg.
Names(i, reg, f) == IsWrite(i) /\ log[i].reg = reg /\ f \in DOMAIN log[i].fields

\* History: position i is a write that can raise the system clock frequency:
\* it switches an oscillator or the PLL on, or selects the system clock source.
RaisesClock(i) ==
    \/ \E f \in CrEnableBits : Names(i, "CR", f) /\ log[i].fields[f]
    \/ Names(i, "CFGR", "sw")

\* C6: the flash latency bit for the new system clock is written before any
\* register write that can raise the system clock frequency (PLL enable,
\* oscillator enable, source switch), and FLASH_ACR holds it from then on.
C6_LatencyBeforeRaise ==
    \A i \in 1..Len(log) :
        RaisesClock(i) =>
            /\ \E j \in 1..(i - 1) :
                  log[j] = Ev("write", "ACR",
                              [latency |-> res.sysclk_freq > 16000000])
            /\ acr.latency = (res.sysclk_freq > 16000000)

C6_Witness ==
    /\ Returned
    /\ UsesPll
    /\ acr.latency
    /\ ~boot.acr.latency
    /\ cfgr.sw = 3

PllUnlockObserved == \E i \in 1..Len(log) : IsRead(i, "pllrdy", FALSE)

\* C8: the PLL multiply, divide and input-select fields are written only
\* while the PLL enable bit is off and the lock flag has been read clear.
C8_PllFieldsOnlyWhilePllOff ==
    [][(<<cfgr.pllmul, cfgr.plldiv, cfgr.pllsrc>>'
            # <<cfgr.pllmul, cfgr.plldiv, cfgr.pllsrc>>)
        => (~cr.pllon /\ PllUnlockObserved)]_vars

\* History: freeze has read the HSE ready flag as set.
HseReadyObserved == \E i \in 1..Len(log) : IsRead(i, "hserdy", TRUE)

\* C9: with an external oscillator configured, the HSI16 enable bit is not
\* cleared before freeze has read the HSE ready flag as set.
C9_HsiKeptUntilHseReady ==
    [][(HseRequested /\ cr.hsi16on /\ ~HseReadyObserved') => cr'.hsi16on]_vars

\* The enable bit of the oscillator freeze chose.
OscEnableBit == IF res.hse_en THEN "hseon" ELSE "hsi16on"

ResolvedSw == IF UsesPll THEN 3 ELSE IF res.hse_en THEN 2 ELSE 1

\* History: the positions at which freeze wrote the SW field.
SwWrites == {i \in 1..Len(log) : Names(i, "CFGR", "sw")}

\* C11: in the PLL branch and in the bypass branch the new source selection
\* and the three prescaler codes go out in one register write; once freeze
\* has selected the new source, HPRE, PPRE1 and PPRE2 hold their resolved
\* codes, and no other write of freeze names a prescaler field.
C11_SwitchWithPrescalers ==
    /\ Cardinality(SwWrites) <= 1
    /\ \A i \in 1..Len(log) :
          (\E f \in {"sw", "hpre", "ppre1", "ppre2"} : Names(i, "CFGR", f)) =>
              /\ DOMAIN log[i].fields = {"sw", "hpre", "ppre1", "ppre2"}
              /\ log[i].fields.sw = ResolvedSw
              /\ log[i].fields.hpre = res.hpre_bits
              /\ log[i].fields.ppre1 = res.ppre1_bits
              /\ log[i].fields.ppre2 = res.ppre2_bits
    /\ ((\E i \in 1..Len(log) : log[i].reg = "CFGR") /\ cfgr.sw = ResolvedSw) =>
          SwWrites # {}
    /\ SwWrites # {} =>
          /\ cfgr.sw = ResolvedSw
          /\ cfgr.hpre = res.hpre_bits
          /\ cfgr.ppre1 = res.ppre1_bits
          /\ cfgr.ppre2 = res.ppre2_bits
    /\ Returned => SwWrites # {}

C11_Witness ==
    /\ Returned
    /\ UsesPll
    /\ cfgr.sw = 3
    /\ cfgr.hpre = 9
    /\ cfgr.ppre1 = 5
    /\ boot.cfgr.sw = 3

\* History: freeze has seen the PLL lock flag set.
PllLockObserved == \E i \in 1..Len(log) : IsRead(i, "pllrdy", TRUE)

\* C12: while the PLL lock flag is clear a poll of the lock wait leaves
\* freeze in the lock wait, with no Clocks value and RCC_CFGR untouched, so
\* with a flag that never sets freeze stays there after any number of polls;
\* a run that uses the PLL returns Clocks, or has SW = PLL written, only
\* after a poll that saw the flag set.
C12_NoLockNoReturn ==
    /\ [](pc = "wait_pll_lock" => (clocks = None /\ cfgr.sw # 3 /\ UsesPll))
    /\ []((UsesPll /\ (Returned \/ SwWrites # {})) => PllLockObserved)
    /\ [][(pc = "wait_pll_lock" /\ ~cr.pllrdy) =>
             (pc' = "wait_pll_lock" /\ clocks' = None /\ cfgr' = cfgr)]_vars

C12_Witness ==
    /\ pc = "wait_pll_lock"
    /\ polls = MaxPolls
    /\ ~cr.pllrdy
    /\ ~PllLockObserved
    /\ clocks = None

\* Requested bus frequencies the chosen prescaler is compared against.
ProbeTargets ==
    {1000000, 2000000, 2200000, 3000000, 4000000, 8000000, 10000000, 16000000}

\* The divider freeze chooses for a bus fed with upstream and asked for target.
AhbRatio(upstream, target) == Shl1(HpreBits(upstream \div target) - 7)
ApbRatio(upstream, target) == Shl1(PpreBits(upstream \div target) - 3)

\* C13, as claimed: for a fixed upstream frequency, a higher requested bus
\* frequency (still at most the upstream frequency) never gives a smaller
\* prescaler ratio than the one freeze chose.
C13_HigherTargetNeverSmallerRatio ==
    Returned =>
        LET c == Unwrap(clocks) IN
        \A t \in ProbeTargets :
            /\ (cfg.hclk # None /\ t >= Unwrap(cfg.hclk) /\ t <= c.sysclk)
                  => AhbRatio(c.sysclk, t) >= Shl1(res.hpre_bits - 7)
            /\ (cfg.pclk1 # None /\ t >= Unwrap(cfg.pclk1) /\ t <= c.hclk)
                  => ApbRatio(c.hclk, t) >= c.ppre1
            /\ (cfg.pclk2 # None /\ t >= Unwrap(cfg.pclk2) /\ t <= c.hclk)
                  => ApbRatio(c.hclk, t) >= c.ppre2

\* C13, amended: for a fixed upstream frequency, a higher requested bus
\* frequency (still at most the upstream frequency) never gives a larger
\* prescaler ratio than the one freeze chose, for AHB, APB1 and APB2.
C13_HigherTargetNeverLargerRatio ==
    Returned =>
        LET c == Unwrap(clocks) IN
        \A t \in ProbeTargets :
            /\ (cfg.hclk # None /\ t >= Unwrap(cfg.hclk) /\ t <= c.sysclk)
                  => AhbRatio(c.sysclk, t) <= Shl1(res.hpre_bits - 7)
            /\ (cfg.pclk1 # None /\ t >= Unwrap(cfg.pclk1) /\ t <= c.hclk)
                  => ApbRatio(c.hclk, t) <= c.ppre1
            /\ (cfg.pclk2 # None /\ t >= Unwrap(cfg.pclk2) /\ t <= c.hclk)
                  => ApbRatio(c.hclk, t) <= c.ppre2

C13_Witness ==
    /\ Returned
    /\ cfg.hclk = Some(4000000)
    /\ Unwrap(clocks).sysclk = 16000000
    /\ res.hpre_bits = 9
    /\ AhbRatio(16000000, 8000000) = 2
    /\ AhbRatio(16000000, 10000000) = 1

\* C14: with CFGR::new() unchanged (no oscillator, no target, no USB PLL)
\* freeze is accepted, never enables the PLL, selects HSI16 as system clock
\* (SW = 0b01) with the divide-by-1 codes in HPRE, PPRE1 and PPRE2, clears
\* the flash latency bit and returns sysclk = hclk = pclk1 = pclk2 = 16 MHz.
C14_ScenarioA ==
    (cfg = CFGR_new /\ pc # "builder") =>
        /\ pc # "panicked"
        /\ ~UsesPll
        /\ \A i \in 1..Len(log) :
              Names(i, "CR", "pllon") => ~log[i].fields.pllon
        /\ Returned =>
              /\ cfgr.sw = 1
              /\ cfgr.hpre = 7 /\ cfgr.ppre1 = 3 /\ cfgr.ppre2 = 3
              /\ ~cr.pllon
              /\ cr.hsi16on
              /\ ~acr.latency
              /\ clocks = Some([sysclk |-> 16000000, hclk |-> 16000000,
                                pclk1 |-> 16000000, pclk2 |-> 16000000,
                                ppre1 |-> 1, ppre2 |-> 1])

C14_Witness ==
    /\ Returned
    /\ cfg = CFGR_new
    /\ boot = BootPll
    /\ cfgr.sw = 1

\* The request of scenarios B and C: an 8 MHz external oscillator of the
\* given type and a 32 MHz system clock, nothing else.
ScenarioBC(ctype) ==
    [CFGR_new EXCEPT !.hse = Some([ctype |-> ctype, freq |-> 8000000]),
                     !.sysclk = Some(32000000)]

\* C15: an 8 MHz external oscillator with sysclk 32 MHz resolves to
\* multiply 8 and divide 2; as Crystal freeze panics on the sysclk ceiling
\* before any register write, as Clock it is accepted with the codes for x8
\* and /2 and returns sysclk = 32 MHz.
C15_ScenariosBC ==
    /\ \A ctype \in HseTypes :
          /\ PllFreq(ScenarioBC(ctype)) \div PllInFreq(ScenarioBC(ctype)) = 8
          /\ PllFreq(ScenarioBC(ctype)) \div SysclkFreq(ScenarioBC(ctype)) = 2
    /\ (cfg = ScenarioBC("Crystal") /\ pc # "builder") =>
          (pc = "panicked" /\ err = "assert_sysclk" /\ log = << >>)
    /\ (cfg = ScenarioBC("Clock") /\ pc # "builder") =>
          /\ pc # "panicked"
          /\ res.pll_mul_div_bits = Some(<<3, 1>>)
          /\ res.sysclk_freq = 32000000
          /\ Returned =>
                /\ Unwrap(clocks).sysclk = 32000000
                /\ cfgr.pllmul = 3 /\ cfgr.plldiv = 1 /\ cfgr.pllsrc
                /\ cfgr.sw = 3

C15_Witness ==
    /\ Returned
    /\ cfg = ScenarioBC("Clock")
    /\ Unwrap(clocks).sysclk = 32000000

\* C16: whenever hclk / requested pclk1 is in 6..=11 (7 in particular),
\* freeze programs PPRE1 = 0b110, the Clocks ppre1 ratio is 8 and
\* pclk1 = hclk / 8.
C16_ScenarioD ==
    /\ Accepted => (res.ppre1 \in {1, 2, 4, 8, 16} /\ res.ppre1_bits \in 3..7)
    /\ (Accepted /\ cfg.pclk1 # None
        /\ res.hclk \div Unwrap(cfg.pclk1) \in 6..11) =>
        /\ res.ppre1_bits = 6
        /\ res.ppre1 = 8
        /\ res.pclk1 = res.hclk \div 8
        /\ Returned =>
              /\ cfgr.ppre1 = 6
              /\ Unwrap(clocks).ppre1 = 8
              /\ Unwrap(clocks).pclk1 = Unwrap(clocks).hclk \div 8

C16_Witness ==
    /\ Returned
    /\ cfg.pclk1 # None
    /\ Unwrap(clocks).hclk \div Unwrap(cfg.pclk1) = 7
    /\ cfgr.ppre1 = 6

\* History: freeze has written FLASH_ACR.
AcrWritten ==
    \E i \in 1..Len(log) : log[i].kind = "write" /\ log[i].reg = "ACR"

\* C19: the flash latency bit freeze writes is set exactly when the final
\* system clock is above 16 MHz, whatever the oscillator type, the use of
\* the PLL and the bus prescalers.
C19_LatencyFromSysclk ==
    /\ AcrWritten => (acr.latency <=> res.sysclk_freq > 16000000)
    /\ Returned => (acr.latency <=> Unwrap(clocks).sysclk > 16000000)

C19_Witness ==
    /\ Returned
    /\ ~acr.latency
    /\ boot.acr.latency
    /\ Unwrap(clocks).sysclk = 16000000
    /\ Unwrap(clocks).hclk < 16000000

\* The PLL output and system clock the claim states for a request.
ClaimedPllFreq(c) ==
    IF c.sysclk = None
    THEN IF c.usb_pll THEN 96000000
         ELSE 2 * (IF c.hse = None THEN 16000000 ELSE Unwrap(c.hse).freq)
    ELSE 2 * Unwrap(c.sysclk)
ClaimedSysclk(c) ==
    IF c.sysclk = None
    THEN IF ClaimedPllFreq(c) > 96000000 THEN ClaimedPllFreq(c) \div 4
         ELSE IF ClaimedPllFreq(c) > 64000000 THEN ClaimedPllFreq(c) \div 3
         ELSE ClaimedPllFreq(c) \div 2
    ELSE Unwrap(c.sysclk)

\* C20: with no sysclk requested the PLL output target is 96 MHz with the
\* USB PLL and 2 x the PLL input otherwise, and sysclk is that output / 4
\* above 96 MHz, / 3 above 64 MHz and / 2 otherwise; with a sysclk requested
\* and no USB PLL the output target is 2 x sysclk and sysclk is the request.
\* Every accepted run carries that sysclk into Clocks.
C20_PllTargetAndSysclk ==
    /\ (cfg.sysclk = None \/ ~cfg.usb_pll) =>
          /\ PllFreq(cfg) = ClaimedPllFreq(cfg)
          /\ SysclkFreq(cfg) = ClaimedSysclk(cfg)
    /\ (Accepted /\ (cfg.sysclk = None \/ ~cfg.usb_pll)) =>
          res.sysclk_freq = ClaimedSysclk(cfg)
    /\ (Returned /\ (cfg.sysclk = None \/ ~cfg.usb_pll)) =>
          Unwrap(clocks).sysclk = ClaimedSysclk(cfg)

C20_Witness ==
    /\ Returned
    /\ cfg.sysclk = None
    /\ cfg.usb_pll
    /\ cfg.hse = None
    /\ Unwrap(clocks).sysclk = 32000000
    /\ cfgr.plldiv = 2

\* The peripherals whose set-up takes the APB1 gate.
GatedDevs == I2cDevs \cup {"LPUART1"}

\* History of the operation: the positions that access the APB1 gate
\* registers, and what position i does.
GateAccesses ==
    {i \in 1..Len(plog) :
        plog[i].dev = "RCC" /\ plog[i].reg \in {"APB1ENR", "APB1RSTR"}}
IsEnable(i, d) == plog[i] = PEv("modify", "RCC", "APB1ENR", EnBit(d) :> TRUE)
IsRstSet(i, d) == plog[i] = PEv("modify", "RCC", "APB1RSTR", RstBit(d) :> TRUE)
IsRstClear(i, d) == plog[i] = PEv("modify", "RCC", "APB1RSTR", RstBit(d) :> FALSE)
OwnAccesses(d) == {i \in 1..Len(plog) : plog[i].dev = d}

\* C17: i2c1, i2c3 and LpUsart::configure access the APB1 gate exactly three
\* times, in the order enable bit set, reset bit set, reset bit cleared, each
\* naming only the peripheral's own bit; every access to a register of the
\* peripheral itself comes after the three; from the third on, and when the
\* operation has finished, the enable bit is 1 and the reset bit is 0.
C17_GateBeforeOwnRegisters ==
    op.name \in GatedDevs =>
        LET d == op.name
            Nth(i) == Cardinality({j \in GateAccesses : j <= i})
        IN
        /\ Cardinality(GateAccesses) <= 3
        /\ \A i \in GateAccesses :
              /\ Nth(i) = 1 => IsEnable(i, d)
              /\ Nth(i) = 2 => IsRstSet(i, d)
              /\ Nth(i) = 3 => IsRstClear(i, d)
        /\ \A i \in OwnAccesses(d) :
              /\ Cardinality({j \in GateAccesses : j < i}) = 3
              /\ apb1enr[EnBit(d)]
              /\ ~apb1rstr[RstBit(d)]
        /\ \A i \in 1..Len(plog) : plog[i].dev \in GatedDevs => plog[i].dev = d
        /\ Cardinality(GateAccesses) = 3 =>
              (apb1enr[EnBit(d)] /\ ~apb1rstr[RstBit(d)])
        /\ op.step = "finished" =>
              /\ Cardinality(GateAccesses) = 3
              /\ OwnAccesses(d) # {}
              /\ apb1enr[EnBit(d)]
              /\ ~apb1rstr[RstBit(d)]

C17_Witness ==
    /\ op.name = "I2C1"
    /\ op.step = "finished"
    /\ i2c["I2C1"].pe
    /\ i2c["I2C3"].pe
    /\ lpuart.ue
    /\ apb1enr.i2c1en /\ apb1enr.i2c3en /\ apb1enr.lpuart1en
    /\ ~apb1rstr.i2c1rst
    /\ Len(plog) = 5

\* The gate bits the operation named n may change.
OwnGateBits(n) ==
    CASE n \in GatedDevs -> {EnBit(n), RstBit(n)}
      [] n = "EXTI0" -> {"syscfgen"}
      [] OTHER -> {}
Changed(old, new) == {f \in DOMAIN old : old[f] # new[f]}

\* C18: a step of a set-up operation changes no enable bit and no reset bit
\* of RCC_APB1ENR, RCC_APB1RSTR and RCC_APB2ENR other than the bits of the
\* peripheral the operation sets up, whatever the registers held before and
\* whatever operations ran before.
C18_OtherGatesUntouched ==
    [][Changed(apb1enr, apb1enr') \cup Changed(apb1rstr, apb1rstr')
          \cup Changed(apb2enr, apb2enr') \subseteq OwnGateBits(op'.name)]_vars

C18_Witness ==
    /\ op.name = "LPUART1"
    /\ op.step = "finished"
    /\ apb1enr.lpuart1en
    /\ apb1enr.usart2en /\ apb1enr.i2c3en /\ ~apb1enr.i2c1en
    /\ apb1rstr.i2c1rst
    /\ apb2enr.usart1en /\ apb2enr.syscfgen
    /\ exti.im

\* What a returned freeze leaves in FLASH_ACR, in the enable bits of RCC_CR
\* and in RCC_CFGR, as a function of the request alone.
FinalAcrOf(c) == [latency |-> Resolve(c).sysclk_freq > 16000000]
FinalCrEnablesOf(c) ==
    LET r == Resolve(c) IN
    [pllon |-> r.pll_mul_div_bits # None,
     hsi16on |-> ~r.hse_en,
     hseon |-> r.hse_en]
FinalCfgrOf(c) ==
    LET r == Resolve(c)
        pll == r.pll_mul_div_bits # None
    IN
    [pllmul |-> IF pll THEN Unwrap(r.pll_mul_div_bits)[1] ELSE 0,
     plldiv |-> IF pll THEN Unwrap(r.pll_mul_div_bits)[2] ELSE 0,
     pllsrc |-> pll /\ r.hse_en,
     sw |-> IF pll THEN 3 ELSE IF r.hse_en THEN 2 ELSE 1,
     hpre |-> r.hpre_bits, ppre1 |-> r.ppre1_bits, ppre2 |-> r.ppre2_bits]

\* C22: whether freeze panics, and with which panic, is decided by the
\* request alone; the locals of an accepted run, the Clocks value returned
\* and the contents freeze leaves in FLASH_ACR, RCC_CFGR and the enable bits
\* of RCC_CR are functions of the request, whatever the registers held
\* before, so two runs on the same request agree on all of them.
C22_ResolutionDeterministic ==
    /\ pc = "panicked" => (Resolve(cfg) = Panic(err) /\ clocks = None)
    /\ Accepted => ("sysclk_freq" \in DOMAIN Resolve(cfg) /\ res = Resolve(cfg))
    /\ Returned =>
          /\ clocks = Some(ClocksOf(Resolve(cfg)))
          /\ acr = FinalAcrOf(cfg)
          /\ cfgr = FinalCfgrOf(cfg)
          /\ \A b \in CrEnableBits : cr[b] = FinalCrEnablesOf(cfg)[b]

C22_Witness ==
    /\ Returned
    /\ boot = BootPll
    /\ ~UsesPll
    /\ HseRequested
    /\ cfgr # boot.cfgr
    /\ acr # boot.acr
    /\ cfgr.pllmul = 0

\* The prescaler codes the hardware defines a divider for.
AhbCodes == 7..15
ApbCodes == 3..7

\* C24: in every Clocks value freeze returns ppre1 and ppre2 are in
\* {1,2,4,8,16} and are 2^(written APB code - 0b011), pclk1 = hclk div ppre1,
\* pclk2 = hclk div ppre2, hclk = sysclk div 2^(written AHB code - 0b0111),
\* hence pclk1 <= hclk <= sysclk and pclk2 <= hclk; every prescaler code
\* freeze writes is in 0b0111..0b1111 (AHB) or 0b011..0b111 (APB1, APB2).
C24_ClocksConsistent ==
    /\ \A i \in 1..Len(log) :
          Names(i, "CFGR", "hpre") =>
              /\ log[i].fields.hpre \in AhbCodes
              /\ log[i].fields.ppre1 \in ApbCodes
              /\ log[i].fields.ppre2 \in ApbCodes
    /\ Returned =>
          LET c == Unwrap(clocks) IN
          /\ cfgr.hpre \in AhbCodes
          /\ cfgr.ppre1 \in ApbCodes
          /\ cfgr.ppre2 \in ApbCodes
          /\ c.ppre1 \in {1, 2, 4, 8, 16}
          /\ c.ppre2 \in {1, 2, 4, 8, 16}
          /\ c.ppre1 = 2 ^ (cfgr.ppre1 - 3)
          /\ c.ppre2 = 2 ^ (cfgr.ppre2 - 3)
          /\ c.pclk1 = c.hclk \div c.ppre1
          /\ c.pclk2 = c.hclk \div c.ppre2
          /\ c.hclk = c.sysclk \div (2 ^ (cfgr.hpre - 7))
          /\ c.pclk1 <= c.hclk
          /\ c.pclk2 <= c.hclk
          /\ c.hclk <= c.sysclk

C24_Witness ==
    /\ Returned
    /\ cfgr.hpre = 9
    /\ cfgr.ppre1 = 5
    /\ cfgr.ppre2 = 4
    /\ Unwrap(clocks).pclk1 = 2000000
    /\ Unwrap(clocks).pclk2 = 4000000

\* A returned run whose AHB code is one of the four highest.
C24_WitnessHighCode ==
    /\ Returned
    /\ cfgr.hpre = 15
    /\ Unwrap(clocks).hclk = 48000000 \div 256

\* The steps of freeze that poll a status flag.
WaitSteps == {"wait_pll_unlock", "wait_osc", "wait_pll_lock", "wait_osc_bypass"}

\* The flag value the wait at pc is polling for has arrived.
AwaitedFlagArrived ==
    CASE pc = "wait_pll_unlock" -> ~cr.pllrdy
      [] pc = "wait_pll_lock" -> cr.pllrdy
      [] pc \in {"wait_osc", "wait_osc_bypass"} -> cr[OscReadyFlag]
      [] OTHER -> TRUE

\* C23: with a processor that keeps running and status flags that follow
\* their enable bits in the end, every freeze run that passed its checks
\* reaches the return with a Clocks value; outside the four flag waits a
\* step of freeze is always possible, and inside a wait it is possible as
\* soon as the awaited flag value is there.
C23_FreezeTerminates ==
    /\ [](InFreeze => clocks = None)
    /\ []((InFreeze /\ AwaitedFlagArrived) => ENABLED <<FreezeStep>>_vars)
    /\ (InFreeze ~> (Returned /\ clocks # None))

C23_Witness ==
    /\ Returned
    /\ clocks # None
    /\ UsesPll
    /\ HseRequested
    /\ boot = BootPll
    /\ polls = MaxPolls
    /\ Len(log) = 8

\* The CR1 word-length bits (M1, M0) and the CR2 stop field the claim gives
\* for a configuration.
ClaimedWordBits(word_length) ==
    CASE word_length = "Word8Bits" -> <<FALSE, FALSE>>
      [] word_length = "Word9Bits" -> <<FALSE, TRUE>>
      [] word_length = "Word7Bits" -> <<TRUE, FALSE>>
ClaimedStopField(stop_bits) ==
    CASE stop_bits = "StopBits1" -> 0
      [] stop_bits = "StopBits2" -> 2

\* C27: once LpUsart::configure has finished, CR1.M1 and CR1.M0 hold the
\* bits of the configured word length (8 bits (0,0), 9 bits (0,1), 7 bits
\* (1,0)) and CR2.STOP holds the code of the configured stop bits (1 stop bit
\* 0b00, 2 stop bits 0b10).
C27_FormatAsConfigured ==
    (op.name = "LPUART1" /\ op.step = "finished") =>
        LET config == Unwrap(op.arg) IN
        /\ <<lpuart.m1, lpuart.m0>> = ClaimedWordBits(config.word_length)
        /\ lpuart.stop = ClaimedStopField(config.stop_bits)


(***************************************************************************)
(* Properties of the I2C transfers.                                        *)
(***************************************************************************)
I2cWaitSteps == {"wait_txis", "wait_tc", "wait_rxne"}
InWait == pc = "done" /\ xfer.step \in I2cWaitSteps
ErrorFlagged == isr[xfer.dev].berr \/ isr[xfer.dev].arlo
IsIsrRead(e) == e.kind = "read" /\ e.reg = "ISR"
IsTxdrWrite(e) == e.kind = "write" /\ e.reg = "TXDR"
IsRxdrRead(e) == e.kind = "read" /\ e.reg = "RXDR"
IsRestart(e) == e.kind = "write" /\ e.reg = "CR2" /\ e.fields.rd_wrn
TxdrWrites(l) == SelectSeq(l, IsTxdrWrite)
RxdrReads(l) == SelectSeq(l, IsRxdrRead)

\* C25: in write and write_read, when the program reads ISR in a wait while
\* a bus error or an arbitration loss is flagged, that very read ends the
\* transfer: the result is Err(Bus) if the bus error is flagged (whatever
\* the arbitration and the awaited flags say) and Err(Arbitration)
\* otherwise, nothing more is written to TXDR and nothing more is stored
\* in the buffer; such a read is always possible; and a transfer that
\* returned Ok never read ISR with an error flag set, while one that
\* returned an error did nothing after the read that showed it.
C25_ErrorEndsTransfer ==
    /\ [][(InWait /\ ErrorFlagged /\ xfer' # xfer) =>
            /\ xfer'.step = "returned"
            /\ xfer'.result = IF isr[xfer.dev].berr THEN "Err(Bus)"
                              ELSE "Err(Arbitration)"
            /\ TxdrWrites(tlog') = TxdrWrites(tlog)
            /\ buffer' = buffer]_vars
    /\ []((InWait /\ ErrorFlagged) =>
            ENABLED <<busy_wait(CHOOSE f \in {"txis", "tc", "rxne"} :
                                   xfer.step = "wait_" \o f, "next")>>_xfer)
    /\ []((xfer.step = "returned" /\ xfer.result = "Ok") =>
            \A k \in 1..Len(tlog) :
               IsIsrRead(tlog[k]) =>
                  ~tlog[k].fields.berr /\ ~tlog[k].fields.arlo)
    /\ []((xfer.step = "returned" /\ xfer.result # "Ok") =>
            LET last == tlog[Len(tlog)] IN
            /\ IsIsrRead(last)
            /\ xfer.result = IF last.fields.berr THEN "Err(Bus)"
                             ELSE "Err(Arbitration)"
            /\ last.fields.berr \/ last.fields.arlo)

\* A write_read that ended with Err(Bus) in its read phase on a read of ISR
\* that showed bus error, arbitration loss and RXNE all set, after one of
\* its two buffer slots was filled.
C25_Witness ==
    /\ xfer.fn = "write_read"
    /\ xfer.step = "returned"
    /\ xfer.result = "Err(Bus)"
    /\ LET last == tlog[Len(tlog)] IN
         last.fields.berr /\ last.fields.arlo /\ last.fields.rxne
    /\ Len(buffer) = 2
    /\ buffer[1] # 0
    /\ buffer[2] = 0

\* C26: in write_read, every write of TXDR comes right after a read of ISR
\* that showed TXIS set, and the bytes go out in the caller's order; the
\* repeated START is written right after a read of ISR that showed TC set,
\* when all the outgoing bytes have been written; every slot of the buffer
\* is filled from a read of RXDR that comes right after a read of ISR that
\* showed RXNE set, the slots not yet reached being untouched; and Ok is
\* returned only when exactly buffer.len() bytes have been read.
C26_WriteReadOrder ==
    (xfer.fn = "write_read" /\ xfer.step # "panicked") =>
       /\ \A k \in 1..Len(tlog) :
             /\ IsTxdrWrite(tlog[k]) =>
                   /\ k > 1
                   /\ IsIsrRead(tlog[k - 1])
                   /\ tlog[k - 1].fields.txis
             /\ IsRestart(tlog[k]) =>
                   /\ k > 1
                   /\ IsIsrRead(tlog[k - 1])
                   /\ tlog[k - 1].fields.tc
                   /\ Len(TxdrWrites(SubSeq(tlog, 1, k))) = Len(xfer.bytes)
                   /\ tlog[k].fields.nbytes = Len(buffer)
             /\ IsRxdrRead(tlog[k]) =>
                   /\ k > 1
                   /\ IsIsrRead(tlog[k - 1])
                   /\ tlog[k - 1].fields.rxne
                   /\ \E j \in 1..(k - 1) : IsRestart(tlog[j])
       /\ LET tx == TxdrWrites(tlog) IN
            /\ Len(tx) <= Len(xfer.bytes)
            /\ \A j \in 1..Len(tx) : tx[j].fields.txdata = xfer.bytes[j]
       /\ LET rx == RxdrReads(tlog) IN
            /\ Len(rx) <= Len(buffer)
            /\ \A j \in 1..Len(buffer) :
                  buffer[j] = IF j <= Len(rx) THEN rx[j].fields.rxdata ELSE 0
       /\ (xfer.step = "returned" /\ xfer.result = "Ok") =>
             Len(RxdrReads(tlog)) = Len(buffer)

\* A write_read of two bytes into a buffer of two slots that returned Ok
\* with two different bytes received.
C26_Witness ==
    /\ xfer.fn = "write_read"
    /\ xfer.step = "returned"
    /\ xfer.result = "Ok"
    /\ Len(xfer.bytes) = 2
    /\ Len(buffer) = 2
    /\ buffer[1] # buffer[2]


(***************************************************************************)
(* Properties of the whole life of one Rcc.                                *)
(***************************************************************************)
IsAcrWrite(e) == e.kind = "write" /\ e.reg = "ACR"
PllFactors == <<cfgr.pllmul, cfgr.plldiv, cfgr.pllsrc>>
ClockSelection == <<cfgr.sw, cfgr.hpre, cfgr.ppre1, cfgr.ppre2>>

\* C21: the clock tree is written once.  The builder that constrain made is
\* consumed by freeze and never comes back, so the first register write of
\* freeze (FLASH_ACR) happens at most once; and once freeze has returned
\* Clocks, no step of any later operation (gate enable and reset, the I2C
\* constructor and transfers, LpUsart::configure with set_lpusart_clock,
\* the interrupt set-up) changes the PLL factors, the clock source
\* selection or the prescaler fields of RCC_CFGR or the values held in
\* Clocks, or adds a register access to those of freeze.
C21_ClockTreeWriteOnce ==
    /\ [](Len(SelectSeq(log, IsAcrWrite)) <= 1)
    /\ [][pc # "builder" => pc' # "builder"]_vars
    /\ [][Returned =>
            /\ PllFactors' = PllFactors
            /\ ClockSelection' = ClockSelection
            /\ clocks' = clocks
            /\ log' = log
            /\ pc' \in {"done", "panicked"}]_vars

\* After a freeze that locked the PLL: an I2c has been built, LPUART1
\* configured, and a write_read has returned Ok.
C21_Witness ==
    /\ Returned
    /\ UsesPll
    /\ i2c["I2C1"].taken
    /\ lpuart.ue
    /\ ccipr # CCIPR_RESET
    /\ xfer.fn = "write_read"
    /\ xfer.result = "Ok"

====
